---------------------------- MODULE Spec2Model ----------------------------
(***************************************************************************)
(* Natural-language preference inference of the Sydney suburb recommender  *)
(* (backend/api/app.py): the keyword mapper _infer_weights_keyword, the    *)
(* lazily initialised embedding cache _get_embedding_state and the         *)
(* selector infer_weights_from_nl_query.                                    *)
(*                                                                         *)
(* Python floats are modelled by exact rationals <<n, d>> in lowest terms  *)
(* with d > 0.  Texts are TLA+ strings; strip(), lower() and the substring *)
(* test `w in text` are computed character by character.                   *)
(***************************************************************************)
EXTENDS Integers, Sequences, FiniteSets, TLC

VARIABLES
    has_st,               \* _HAS_SENTENCE_TRANSFORMERS, fixed at import time
    embedding_model,      \* module global _embedding_model
    example_embeddings,   \* module global _example_embeddings
    calls,                \* per caller: the activation of the function it runs
    loads,                \* completed constructions inside _get_embedding_state
    embed_memo,           \* the embedding capability: similarities it gave per text
    history,              \* per argument: what earlier calls of the selector returned
    sa2_scores,           \* the committed rows of table sa2_scores
    run,                  \* the activation of calculate_well_resourced_score
    reader_view,          \* what the last reader of sa2_scores observed
    catalog,              \* the module-level objects DEFAULT_WEIGHTS, EXAMPLE_QUERIES, FALLBACK_KEYWORDS
    recommend,            \* the activation of get_recommendations
    request               \* the activation of NSWDataCollector._make_request

\* The embedding capability and the record of earlier results.
detVars == <<embed_memo, history>>

\* The state of the scoring engine and of its score store.
scoreVars == <<sa2_scores, run, reader_view>>

\* The catalog objects, the recommendation endpoint and the data collector.
restVars == <<catalog, recommend, request>>

vars ==
    <<has_st, embedding_model, example_embeddings, calls, loads, detVars, scoreVars, restVars>>

\* Python None; no text of the model is spelled like it.
None == "<None>"

-----------------------------------------------------------------------------
(* Exact rational arithmetic standing for float arithmetic.                *)

Abs(x) == IF x < 0 THEN -x ELSE x

RECURSIVE GCD(_, _)
GCD(a, b) == IF b = 0 THEN a ELSE GCD(b, a % b)

Rat(n, d) ==
    LET g == GCD(Abs(n), Abs(d))
        s == IF d < 0 THEN -1 ELSE 1
    IN  <<(s * n) \div g, (s * d) \div g>>

\* Sum, product and quotient of fractions in lowest terms; common factors
\* are cancelled before multiplying.
RAdd(x, y) ==
    LET g == GCD(x[2], y[2])
    IN  Rat(x[1] * (y[2] \div g) + y[1] * (x[2] \div g), (x[2] \div g) * y[2])
RMul(x, y) ==
    LET g == GCD(Abs(x[1]), y[2])
        h == GCD(Abs(y[1]), x[2])
    IN  Rat((x[1] \div g) * (y[1] \div h), (x[2] \div h) * (y[2] \div g))
RDiv(x, y) == RMul(x, Rat(y[2], y[1]))
RLeq(x, y) == x[1] * y[2] <= y[1] * x[2]
RZero == Rat(0, 1)
ROne == Rat(1, 1)

\* Python `x or 1.0` on a float: 1.0 when x is zero.
OrOne(x) == IF x[1] = 0 THEN ROne ELSE x

RECURSIVE RSumSeq(_)
RSumSeq(s) == IF s = <<>> THEN RZero ELSE RAdd(Head(s), RSumSeq(Tail(s)))

\* Elementwise `s / total`.
RECURSIVE DivEach(_, _)
DivEach(s, total) ==
    IF s = <<>> THEN <<>> ELSE <<RDiv(Head(s), total)>> \o DivEach(Tail(s), total)

-----------------------------------------------------------------------------
(* The catalog: categories, DEFAULT_WEIGHTS, EXAMPLE_QUERIES.              *)

\* Key order of DEFAULT_WEIGHTS (dict insertion order).
CategoryOrder == <<"recreation", "community", "transport", "education", "utility">>

Categories == {CategoryOrder[i] : i \in 1..Len(CategoryOrder)}

\* The dict with the given values, in the key order of DEFAULT_WEIGHTS.
DictOf(vals) ==
    [k \in Categories |-> vals[CHOOSE i \in 1..Len(CategoryOrder) : CategoryOrder[i] = k]]

\* d.values(): the values of a dict in key order.
RECURSIVE ValuesFor(_, _)
ValuesFor(d, keys) ==
    IF keys = <<>> THEN <<>> ELSE <<d[Head(keys)]>> \o ValuesFor(d, Tail(keys))

Values(d) == ValuesFor(d, CategoryOrder)

\* A weight dict from its five values given in hundredths.
Weights(r, c, t, e, u) ==
    DictOf(<<Rat(r, 100), Rat(c, 100), Rat(t, 100), Rat(e, 100), Rat(u, 100)>>)

DEFAULT_WEIGHTS == Weights(25, 25, 25, 15, 10)

\* The "weights" of EXAMPLE_QUERIES, in list order (the "text" of an entry is
\* read only by the embedding model).
EXAMPLE_QUERIES ==
    << Weights(20, 30, 15, 30, 5),
       Weights(35, 15, 30, 10, 10),
       Weights(15, 20, 25, 15, 25),
       Weights(15, 30, 15, 5, 35),
       Weights(20, 20, 30, 25, 5),
       Weights(25, 25, 25, 20, 5) >>

FALLBACK_KEYWORDS ==
    [k \in Categories |->
        CASE k = "recreation" ->
               <<"park", "parks", "beach", "beaches", "sports", "gym", "pool",
                 "playground", "green space", "nature", "outdoors",
                 "recreation", "nightlife", "bars", "restaurants">>
          [] k = "community" ->
               <<"community", "family", "family-friendly", "families", "kids",
                 "safe", "quiet", "peaceful", "neighbourly", "neighborhood",
                 "village", "local vibe", "community centre",
                 "community center", "library">>
          [] k = "transport" ->
               <<"transport", "public transport", "train", "station", "bus",
                 "metro", "light rail", "tram", "easy commute",
                 "close to city", "near cbd", "good transport",
                 "strong transport">>
          [] k = "education" ->
               <<"school", "schools", "good schools", "education",
                 "university", "uni", "college", "tafes", "students",
                 "student", "children's education">>
          [] k = "utility" ->
               <<"shopping", "shops", "supermarket", "mall", "services",
                 "hospital", "clinic", "doctor", "healthcare",
                 "infrastructure", "amenities", "essential services">>]

-----------------------------------------------------------------------------
(* str.strip(), str.lower(), `w in text`.                                  *)

Whitespace == {" ", "\t", "\n"}

UpperChars == "ABCDEFGHIJKLMNOPQRSTUVWXYZ"
LowerChars == "abcdefghijklmnopqrstuvwxyz"

CharAt(s, i) == SubSeq(s, i, i)

LowerChar(c) ==
    IF \E i \in 1..Len(UpperChars) : CharAt(UpperChars, i) = c
    THEN CharAt(LowerChars, CHOOSE i \in 1..Len(UpperChars) : CharAt(UpperChars, i) = c)
    ELSE c

RECURSIVE Lower(_)
Lower(s) == IF Len(s) = 0 THEN "" ELSE LowerChar(CharAt(s, 1)) \o Lower(SubSeq(s, 2, Len(s)))

RECURSIVE LStrip(_)
LStrip(s) ==
    IF Len(s) > 0 /\ CharAt(s, 1) \in Whitespace THEN LStrip(SubSeq(s, 2, Len(s))) ELSE s

RECURSIVE RStrip(_)
RStrip(s) ==
    IF Len(s) > 0 /\ CharAt(s, Len(s)) \in Whitespace
    THEN RStrip(SubSeq(s, 1, Len(s) - 1))
    ELSE s

\* Faulty variant of Strip: no trimming at all.
StripNothing(s) == s

Strip(s) == RStrip(LStrip(s))

\* Python `query or ""`: None (and "") become "".
OrEmpty(q) == IF q = None THEN "" ELSE q

\* The number of positions of text at which w occurs.
Occurrences(w, text) ==
    Cardinality({i \in 1..(Len(text) - Len(w) + 1) : SubSeq(text, i, i + Len(w) - 1) = w})

\* Python `w in text` for strings.
Contains(w, text) ==
    \E i \in 1..(Len(text) - Len(w) + 1) : SubSeq(text, i, i + Len(w) - 1) = w


-----------------------------------------------------------------------------
(* _infer_weights_keyword                                                   *)

\* Faulty variant of PhraseScore: every occurrence of the phrase counts.
PhraseScoreOccurrences(w, text) == Occurrences(w, text)

\* `if w in text: scores[category] += 1.0`: what one phrase adds.
PhraseScore(w, text) == IF Contains(w, text) THEN 1 ELSE 0

RECURSIVE WordsScore(_, _)
WordsScore(words, text) ==
    IF words = <<>> THEN 0
    ELSE PhraseScore(Head(words), text) + WordsScore(Tail(words), text)

\* The dict `scores` after the two loops.
RECURSIVE ScoresFor(_, _)
ScoresFor(text, keys) ==
    IF keys = <<>> THEN <<>>
    ELSE <<Rat(WordsScore(FALLBACK_KEYWORDS[Head(keys)], text), 1)>> \o ScoresFor(text, Tail(keys))

KeywordScores(text) == DictOf(ScoresFor(text, CategoryOrder))

\* sum(d.values()) of a weight dict, in key order.
SumValues(d) == RSumSeq(Values(d))

\* Faulty variant of KeywordTotal: the scores are divided by the number of categories.
KeywordTotalCategories(scores) == Rat(Cardinality(Categories), 1)

\* `total = sum(scores.values()) or 1.0`
KeywordTotal(scores) == OrOne(SumValues(scores))

\* Faulty variant of NoMatchWeights: a uniform vector when nothing matches.
NoMatchUniform == Weights(20, 20, 20, 20, 20)

\* `return DEFAULT_WEIGHTS.copy()` when every score is 0.0.
NoMatchWeights == DEFAULT_WEIGHTS

_infer_weights_keyword(query) ==
    LET text == Lower(Strip(OrEmpty(query)))
        scores == KeywordScores(text)
        total == KeywordTotal(scores)
    IN  IF text = "" THEN DEFAULT_WEIGHTS
        ELSE IF \A k \in Categories : scores[k] = RZero THEN NoMatchWeights
        ELSE DictOf(DivEach(Values(scores), total))

-----------------------------------------------------------------------------
(* The semantic blend of infer_weights_from_nl_query.                       *)

Min(a, b) == IF a <= b THEN a ELSE b

\* `top_k = min(3, len(EXAMPLE_QUERIES))`
top_k == Min(3, Len(EXAMPLE_QUERIES))

\* np.argsort(-sims) over the indices `left`: indices by decreasing
\* similarity.  Equal similarities are taken in index order (a fixed order:
\* the same array always sorts the same way).
RECURSIVE ArgsortFrom(_, _)
ArgsortFrom(sims, left) ==
    IF left = {} THEN <<>>
    ELSE LET first == CHOOSE i \in left :
                        \A j \in left \ {i} :
                            \/ ~RLeq(sims[i], sims[j])
                            \/ (sims[i] = sims[j] /\ i < j)
         IN  <<first>> \o ArgsortFrom(sims, left \ {first})

Argsort(sims) == ArgsortFrom(sims, 1..Len(sims))

\* `idx = np.argsort(-sims)[:top_k]`
TopIdx(sims) == SubSeq(Argsort(sims), 1, top_k)

\* `top_sims = sims[idx]`
RECURSIVE TopSims(_, _)
TopSims(sims, idx) ==
    IF idx = <<>> THEN <<>> ELSE <<sims[Head(idx)]>> \o TopSims(sims, Tail(idx))

\* Faulty variant of AllDissimilar: one non-positive similarity is enough.
AnyDissimilar(top_sims) == \E j \in 1..Len(top_sims) : RLeq(top_sims[j], RZero)

\* `np.all(top_sims <= 0)`
AllDissimilar(top_sims) == \A j \in 1..Len(top_sims) : RLeq(top_sims[j], RZero)

\* Faulty variant of NormalizeSims: every selected example gets the same weight.
NormalizeUniform(top_sims) ==
    DivEach([j \in 1..Len(top_sims) |-> ROne] \o <<>>, Rat(Len(top_sims), 1))

\* `weights_norm = top_sims / (top_sims.sum() or 1.0)`
NormalizeSims(top_sims) == DivEach(top_sims, OrOne(RSumSeq(top_sims)))

\* agg[key] after the loop `agg[key] += w * ex_weights[key]` over
\* zip(weights_norm, idx).
RECURSIVE AggKey(_, _, _)
AggKey(weights_norm, idx, key) ==
    IF idx = <<>> THEN RZero
    ELSE RAdd(RMul(Head(weights_norm), EXAMPLE_QUERIES[Head(idx)][key]),
              AggKey(Tail(weights_norm), Tail(idx), key))

RECURSIVE AggValues(_, _, _)
AggValues(weights_norm, idx, keys) ==
    IF keys = <<>> THEN <<>>
    ELSE <<AggKey(weights_norm, idx, Head(keys))>> \o AggValues(weights_norm, idx, Tail(keys))

\* The dict `agg` after the blending loop.
BlendAgg(weights_norm, idx) == DictOf(AggValues(weights_norm, idx, CategoryOrder))

\* `total = sum(agg.values()) or 1.0; agg[key] = float(agg[key] / total)`
Renormalize(agg) ==
    LET total == OrOne(SumValues(agg))
    IN  DictOf(DivEach(Values(agg), total))

\* Faulty variant of Blend: the call that computed the catalog embeddings
\* returns the default vector, only later calls blend.
BlendColdStart(sims) ==
    IF \E t \in DOMAIN calls : "encode_examples" \in calls[t].invoked
    THEN DEFAULT_WEIGHTS
    ELSE LET idx == TopIdx(sims)
         IN  Renormalize(BlendAgg(NormalizeSims(TopSims(sims, idx)), idx))

Blend(sims) ==
    LET idx == TopIdx(sims)
    IN  Renormalize(BlendAgg(NormalizeSims(TopSims(sims, idx)), idx))

-----------------------------------------------------------------------------
(* Inputs.                                                                  *)

\* Arguments of infer_weights_from_nl_query.
Queries == {None, "", " \t ", " Uni bus\n", "xyz"}

\* Cosine similarities the embedding model can produce, in tenths.
SimTenths == {-1, 0, 1, 5, 9}

\* np.dot(example_embs, q_vec): one similarity per catalog entry.
SimVectors == [1..Len(EXAMPLE_QUERIES) -> {Rat(v, 10) : v \in SimTenths}]

\* Arguments of direct calls of _infer_weights_keyword: every text over a
\* small alphabet up to MaxTextLen characters, and sample sentences.
MaxTextLen == 3

TextAlphabet == {"b", "u", "s", "n", "i", "U", " "}

RECURSIVE TextsUpTo(_)
TextsUpTo(n) ==
    IF n = 0 THEN {""}
    ELSE LET shorter == TextsUpTo(n - 1)
         IN  shorter \cup {s \o c : s \in shorter, c \in TextAlphabet}

SampleTexts ==
    { "lots of parks and beaches", "peaceful community", "Uni bus",
      "Good Schools", "Uni bus bus", "safe parks near a train station",
      "  Close to City shops ", "gym", "quiet", "mall", "x" }

KeywordTexts == TextsUpTo(MaxTextLen) \cup SampleTexts \cup {None}

Callers == {"c1"}

\* The callers of the specification with concurrent calls.
ConcCallers == {"c1", "c2"}

\* No SentenceTransformer was constructed and no catalog embedding computed.
NoLoads == [model |-> 0, catalog |-> 0]

\* The embedding capability has not been asked about any text.
NoMemo == [q \in {} |-> <<>>]

\* No call of the selector has finished.
NoHistory == {}

\* The module-level objects as the import of app.py leaves them.
ImportedCatalog ==
    [DEFAULT_WEIGHTS |-> DEFAULT_WEIGHTS,
     EXAMPLE_QUERIES |-> EXAMPLE_QUERIES,
     FALLBACK_KEYWORDS |-> FALLBACK_KEYWORDS]

\* get_recommendations is not being served.
RecommendIdle ==
    [pc |-> "idle", app |-> "none", preferences |-> DEFAULT_WEIGHTS, df |-> <<>>,
     recommendations |-> <<>>, outcome |-> "none", status |-> 200]

\* _make_request is not running.
RequestIdle ==
    [pc |-> "idle", retries |-> 0, attempt |-> 0, gets |-> 0, sleeps |-> 0,
     failures |-> <<>>, returned |-> FALSE, result |-> None]

\* The similarity vectors of the capability that answers the same text with
\* the same vector.
SimVectorsDet ==
    {[i \in 1..Len(EXAMPLE_QUERIES) |-> Rat(v[i], 10)] :
        v \in {<<9, 5, 1, 0, 0, 0>>, <<0, 1, 5, 9, 0, 1>>, <<-1, -1, 0, -1, 0, -1>>}}

-----------------------------------------------------------------------------
(* Activations.                                                             *)

\* A caller that is not inside a call.
Idle ==
    [pc |-> "idle", fn |-> "none", arg |-> None, query |-> "", sims |-> <<>>,
     idx |-> <<>>, result |-> None, outcome |-> "none", mode |-> "none",
     raised |-> "none", invoked |-> {}]

\* The activation c has returned `weights`; mode names the return statement.
Returned(c, weights, mode) ==
    [c EXCEPT !.pc = "done", !.result = weights, !.outcome = "returned", !.mode = mode]

\* The exception a failing step raises.
ExcType(step) ==
    CASE step = "unavailable" -> "RuntimeError"
      [] step = "assert"      -> "AssertionError"
      [] step = "load_model"  -> "OSError"
      [] OTHER                -> "ValueError"

\* Faulty variant of Caught: the handler catches RuntimeError only.
CaughtRuntimeErrorOnly(exc) == exc = "RuntimeError"

\* `except Exception:` catches every subclass of Exception.
Caught(exc) == exc \in {"RuntimeError", "AssertionError", "OSError", "ValueError"}

\* `return DEFAULT_WEIGHTS.copy()` for an empty query.
EmptyResult == DEFAULT_WEIGHTS

\* Faulty variant of NoLibraryResult: DEFAULT instead of the keyword result.
NoLibraryDefault(query) == DEFAULT_WEIGHTS

\* `return _infer_weights_keyword(query)` when the library is missing.
NoLibraryResult(query) == _infer_weights_keyword(query)

\* `return _infer_weights_keyword(query)` when every top similarity is <= 0.
DissimilarResult(query) == _infer_weights_keyword(query)

\* Faulty variant of ExceptResult: DEFAULT instead of the keyword result.
ExceptDefault(query) == DEFAULT_WEIGHTS

\* `return _infer_weights_keyword(query)` in the exception handler.
ExceptResult(query) == _infer_weights_keyword(query)

\* A step of the try block raises: the handler of infer_weights_from_nl_query.
OnRaise(c, step) ==
    IF Caught(ExcType(step))
    THEN [Returned(c, ExceptResult(c.query), "keyword") EXCEPT !.raised = step]
    ELSE [c EXCEPT !.pc = "done", !.outcome = "raised", !.raised = step]

Invoke(c, what) == [c EXCEPT !.invoked = @ \cup {what}]

-----------------------------------------------------------------------------
(* infer_weights_from_nl_query, entry: strip, empty check, library check.   *)

Enter(q) == [Idle EXCEPT !.fn = "infer", !.arg = q, !.query = Strip(OrEmpty(q))]

CallEmpty(t) ==
    /\ calls[t].pc = "idle"
    /\ \E q \in Queries :
        /\ Enter(q).query = ""
        /\ calls' = [calls EXCEPT ![t] = Returned(Enter(q), EmptyResult, "default")]
    /\ UNCHANGED <<has_st, embedding_model, example_embeddings, loads, detVars, scoreVars, restVars>>

CallNoLibrary(t) ==
    /\ calls[t].pc = "idle"
    /\ ~has_st
    /\ \E q \in Queries :
        /\ Enter(q).query # ""
        /\ calls' = [calls EXCEPT ![t] =
                        Returned(Enter(q), NoLibraryResult(Enter(q).query), "keyword")]
    /\ UNCHANGED <<has_st, embedding_model, example_embeddings, loads, detVars, scoreVars, restVars>>

CallSemantic(t) ==
    /\ calls[t].pc = "idle"
    /\ has_st
    /\ \E q \in Queries :
        /\ Enter(q).query # ""
        /\ calls' = [calls EXCEPT ![t] = [Enter(q) EXCEPT !.pc = "get_state"]]
    /\ UNCHANGED <<has_st, embedding_model, example_embeddings, loads, detVars, scoreVars, restVars>>

(* _get_embedding_state                                                     *)

GetStateCheck(t) ==
    /\ calls[t].pc = "get_state"
    /\ calls' = [calls EXCEPT ![t] =
                    IF ~has_st THEN OnRaise(@, "unavailable")
                    ELSE IF embedding_model = None THEN [@ EXCEPT !.pc = "load_model"]
                    ELSE [@ EXCEPT !.pc = "assert"]]
    /\ UNCHANGED <<has_st, embedding_model, example_embeddings, loads, detVars, scoreVars, restVars>>

LoadModelOk(t) ==
    /\ calls[t].pc = "load_model"
    /\ embedding_model' = "SentenceTransformer"
    /\ calls' = [calls EXCEPT ![t] = [Invoke(@, "load_model") EXCEPT !.pc = "encode_examples"]]
    /\ loads' = [loads EXCEPT !.model = @ + 1]
    /\ UNCHANGED <<has_st, example_embeddings, detVars, scoreVars, restVars>>

\* Faulty variant of LoadModelRaises: the failed construction leaves a value
\* in _embedding_model.
LoadModelRaisesKeepsModel(t) ==
    /\ calls[t].pc = "load_model"
    /\ embedding_model' = "SentenceTransformer"
    /\ calls' = [calls EXCEPT ![t] = OnRaise(Invoke(@, "load_model"), "load_model")]
    /\ UNCHANGED <<has_st, example_embeddings, loads, detVars, scoreVars, restVars>>

\* `SentenceTransformer(...)` raises: the assignment of line 150 does not
\* take place.
LoadModelRaises(t) ==
    /\ calls[t].pc = "load_model"
    /\ calls' = [calls EXCEPT ![t] = OnRaise(Invoke(@, "load_model"), "load_model")]
    /\ UNCHANGED <<has_st, embedding_model, example_embeddings, loads, detVars, scoreVars, restVars>>

EncodeExamplesOk(t) ==
    /\ calls[t].pc = "encode_examples"
    /\ example_embeddings' = "embeddings"
    /\ calls' = [calls EXCEPT ![t] = [Invoke(@, "encode_examples") EXCEPT !.pc = "assert"]]
    /\ loads' = [loads EXCEPT !.catalog = @ + 1]
    /\ UNCHANGED <<has_st, embedding_model, detVars, scoreVars, restVars>>

EncodeExamplesRaises(t) ==
    /\ calls[t].pc = "encode_examples"
    /\ calls' = [calls EXCEPT ![t] = OnRaise(Invoke(@, "encode_examples"), "encode_examples")]
    /\ UNCHANGED <<has_st, embedding_model, example_embeddings, loads, detVars, scoreVars, restVars>>

AssertEmbeddings(t) ==
    /\ calls[t].pc = "assert"
    /\ calls' = [calls EXCEPT ![t] =
                    IF example_embeddings = None THEN OnRaise(@, "assert")
                    ELSE [@ EXCEPT !.pc = "semantic"]]
    /\ UNCHANGED <<has_st, embedding_model, example_embeddings, loads, detVars, scoreVars, restVars>>

(* infer_weights_from_nl_query, the rest of the try block                   *)

\* The activation after the query was encoded and compared with the
\* catalog, the similarities being sims.
SemanticResult(c0, sims) ==
    LET c == [Invoke(c0, "encode_query") EXCEPT !.sims = sims, !.idx = TopIdx(sims)]
    IN  IF AllDissimilar(TopSims(sims, c.idx))
        THEN Returned(c, DissimilarResult(c.query), "keyword")
        ELSE Returned(c, Blend(sims), "semantic")

Semantic(t) ==
    /\ calls[t].pc = "semantic"
    /\ \E sims \in SimVectors :
        calls' = [calls EXCEPT ![t] = SemanticResult(calls[t], sims)]
    /\ UNCHANGED <<has_st, embedding_model, example_embeddings, loads, detVars, scoreVars, restVars>>

\* The steps after _get_embedding_state that can raise.
SemanticSteps == {"encode_query", "similarity", "blend"}

SemanticRaises(t) ==
    /\ calls[t].pc = "semantic"
    /\ \E step \in SemanticSteps :
        calls' = [calls EXCEPT ![t] = OnRaise(Invoke(@, "encode_query"), step)]
    /\ UNCHANGED <<has_st, embedding_model, example_embeddings, loads, detVars, scoreVars, restVars>>

\* The caller has taken the result (or the exception) and may call again.
Finish(t) ==
    /\ calls[t].pc = "done"
    /\ calls' = [calls EXCEPT ![t] = Idle]
    /\ UNCHANGED <<has_st, embedding_model, example_embeddings, loads, detVars, scoreVars, restVars>>

\* A direct call of _infer_weights_keyword with one of the given texts.
CallKeywordFrom(t, texts) ==
    /\ calls[t].pc = "idle"
    /\ \E q \in texts :
        calls' = [calls EXCEPT ![t] =
                    Returned([Idle EXCEPT !.fn = "keyword", !.arg = q, !.query = q],
                             _infer_weights_keyword(q), "keyword")]
    /\ UNCHANGED <<has_st, embedding_model, example_embeddings, loads, detVars, scoreVars, restVars>>

\* A direct call of _infer_weights_keyword.
CallKeyword(t) == CallKeywordFrom(t, KeywordTexts)

(* The selector over an embedding capability that returns the same vector   *)
(* for the same text: the first encoding of a text fixes its similarities.  *)

SemanticDet(t) ==
    /\ calls[t].pc = "semantic"
    /\ LET q == calls[t].query
           choices == IF q \in DOMAIN embed_memo THEN {embed_memo[q]} ELSE SimVectorsDet
       IN  \E sims \in choices :
            /\ calls' = [calls EXCEPT ![t] = SemanticResult(calls[t], sims)]
            /\ embed_memo' = [x \in DOMAIN embed_memo \cup {q} |->
                                IF x = q THEN sims ELSE embed_memo[x]]
    /\ UNCHANGED <<has_st, embedding_model, example_embeddings, loads, history, scoreVars, restVars>>

\* What the caller keeps of a finished call: the argument, whether a step of
\* the try block raised, whether it was the construction of the model, and
\* the vector returned.
Summary(c) ==
    [arg |-> c.arg, raised |-> c.raised # "none", load_failed |-> c.raised = "load_model",
     result |-> c.result]

\* The caller takes the result and remembers it.
FinishDet(t) ==
    /\ calls[t].pc = "done"
    /\ history' = IF calls[t].outcome = "returned"
                  THEN history \cup {Summary(calls[t])} ELSE history
    /\ calls' = [calls EXCEPT ![t] = Idle]
    /\ UNCHANGED <<has_st, embedding_model, example_embeddings, loads, embed_memo, scoreVars, restVars>>

-----------------------------------------------------------------------------
(* The scoring engine (src/analysis/scoring_engine.py): normalisation.      *)
(*                                                                          *)
(* A z-score (x - mean) / std is the signed square root of a rational; it  *)
(* is kept as its sign and its square.  A sum of z-scores is kept as the    *)
(* sequence of its non-zero terms, with integer bounds in hundredths, and   *)
(* the sigmoid of the sum by the range the float result falls into.         *)

\* `for component in ['business', 'stops', 'schools', 'poi']`
ComponentOrder == <<"business", "stops", "schools", "poi">>

RSub(x, y) == RAdd(x, Rat(-y[1], y[2]))

Sign(x) == IF x[1] > 0 THEN 1 ELSE IF x[1] < 0 THEN -1 ELSE 0

\* `values = [s['raw_scores'][component] for s in all_scores]`
RawValues(all_scores, component) ==
    [i \in 1..Len(all_scores) |-> Rat(all_scores[i].raw_scores[component], 1)] \o <<>>

\* `sum(...)` over the elements lo..hi of a sequence of floats.
RECURSIVE RSumRange(_, _, _)
RSumRange(s, lo, hi) ==
    IF lo > hi THEN RZero
    ELSE IF lo = hi THEN s[lo]
    ELSE LET mid == (lo + hi) \div 2
         IN  RAdd(RSumRange(s, lo, mid), RSumRange(s, mid + 1, hi))

RSum(s) == RSumRange(s, 1, Len(s))

\* Faulty variant of Mean: the sum is divided by len(values) + 1.
MeanOffByOne(values) == RDiv(RSum(values), Rat(Len(values) + 1, 1))

\* `mean = sum(values) / len(values)`
Mean(values) == RDiv(RSum(values), Rat(Len(values), 1))

\* `(x - mean) ** 2 for x in values`
SquaredDeviations(values, mean) ==
    [i \in 1..Len(values) |-> RMul(RSub(values[i], mean), RSub(values[i], mean))] \o <<>>

\* Faulty variant of Variance: the sample variance, divided by N - 1.
SampleVariance(values) ==
    RDiv(RSum(SquaredDeviations(values, Mean(values))),
         Rat(IF Len(values) > 1 THEN Len(values) - 1 ELSE 1, 1))

\* The square of `std = (sum((x - mean) ** 2 for x in values) / len(values)) ** 0.5`
Variance(values) ==
    RDiv(RSum(SquaredDeviations(values, Mean(values))), Rat(Len(values), 1))

\* The z-score 0.
ZeroZ == [sgn |-> 0, sq |-> RZero]

\* Faulty variant of ZScore: a dimension without spread gets the z-score 1.
ZScoreOneWithoutSpread(x, mean, variance) ==
    IF variance # RZero
    THEN LET d == RSub(x, mean)
         IN  [sgn |-> Sign(d), sq |-> RDiv(RMul(d, d), variance)]
    ELSE [sgn |-> 1, sq |-> ROne]

\* `z_score = (x - mean) / std if std != 0 else 0`
ZScore(x, mean, variance) ==
    IF variance # RZero
    THEN LET d == RSub(x, mean)
         IN  [sgn |-> Sign(d), sq |-> RDiv(RMul(d, d), variance)]
    ELSE ZeroZ

\* mean and squared std of every component, in ComponentOrder.
RECURSIVE ComponentStats(_, _)
ComponentStats(all_scores, components) ==
    IF components = <<>> THEN <<>>
    ELSE LET values == RawValues(all_scores, Head(components))
         IN  <<<<Mean(values), Variance(values)>>>>
                \o ComponentStats(all_scores, Tail(components))

\* The z-scores of one score, in ComponentOrder.
RECURSIVE ZValues(_, _, _)
ZValues(score, stats, components) ==
    IF components = <<>> THEN <<>>
    ELSE <<ZScore(Rat(score.raw_scores[Head(components)], 1), Head(stats)[1], Head(stats)[2])>>
            \o ZValues(score, Tail(stats), Tail(components))

\* `score['z_scores'][component] = z_score` for the four components.
ZDict(v) == [business |-> v[1], stops |-> v[2], schools |-> v[3], poi |-> v[4]]

\* Faulty variant of WithZScores: a z-score a dictionary already holds is
\* added to, not replaced.
WithZScoresAdded(all_scores, stats) ==
    [i \in 1..Len(all_scores) |->
        [all_scores[i] EXCEPT !.z_scores =
            LET new == ZDict(ZValues(all_scores[i], stats, ComponentOrder))
            IN  IF @ = <<>> THEN new
                ELSE [c \in DOMAIN new |->
                        [sgn |-> new[c].sgn, sq |-> RMul(new[c].sq, Rat(4, 1))]]]]
    \o <<>>

\* `score['z_scores'] = score.get('z_scores', {})` and
\* `score['z_scores'][component] = z_score`: the four keys are written into
\* the dictionary the score already has, or into a new one.
WithZScores(all_scores, stats) ==
    [i \in 1..Len(all_scores) |->
        [all_scores[i] EXCEPT !.z_scores = ZDict(ZValues(all_scores[i], stats, ComponentOrder))]]
    \o <<>>

\* _calculate_z_scores on a batch with at least one score.
_calculate_z_scores(all_scores) ==
    WithZScores(all_scores, ComponentStats(all_scores, ComponentOrder))

(* The sigmoid.                                                             *)

NonZero(z) == z.sgn # 0

\* `total_z = sum(score['z_scores'].values())`: the non-zero terms of the sum.
TotalZ(z_scores) ==
    SelectSeq(<<z_scores.business, z_scores.stops, z_scores.schools, z_scores.poi>>, NonZero)

RECURSIVE ISqrtIn(_, _, _)
ISqrtIn(n, lo, hi) ==
    IF hi - lo <= 1 THEN lo
    ELSE LET mid == (lo + hi) \div 2
         IN  IF mid * mid <= n THEN ISqrtIn(n, mid, hi) ELSE ISqrtIn(n, lo, mid)

\* The integer part of the square root of n.
ISqrt(n) == ISqrtIn(n, 0, 46341)

\* Integer bounds of |z| in hundredths.
MagLow(z) == ISqrt((z.sq[1] * 10000) \div z.sq[2])
MagHigh(z) ==
    LET r == MagLow(z)
    IN  IF r * r * z.sq[2] = z.sq[1] * 10000 THEN r ELSE r + 1

ZLow(z) == IF z.sgn > 0 THEN MagLow(z) ELSE IF z.sgn < 0 THEN -MagHigh(z) ELSE 0
ZHigh(z) == IF z.sgn > 0 THEN MagHigh(z) ELSE IF z.sgn < 0 THEN -MagLow(z) ELSE 0

RECURSIVE TotalLow(_)
TotalLow(total) == IF total = <<>> THEN 0 ELSE ZLow(Head(total)) + TotalLow(Tail(total))

RECURSIVE TotalHigh(_)
TotalHigh(total) == IF total = <<>> THEN 0 ELSE ZHigh(Head(total)) + TotalHigh(Tail(total))

\* In float arithmetic 1 + exp(-t) is 1.0 from t = 53 ln 2 = 36.7368... on.
SaturationHundredths == 3674

\* math.exp(x) raises OverflowError from x = 709.78... on.
OverflowHundredths == 70979

\* The ranges `1 / (1 + math.exp(-total_z))` can fall into: strictly inside
\* (0, 1), exactly 1.0, or math.exp raising OverflowError.
SigmoidRanges(total) ==
    LET lo == TotalLow(total)
        hi == TotalHigh(total)
    IN  (IF lo < SaturationHundredths /\ hi > -OverflowHundredths THEN {"inside"} ELSE {})
        \cup (IF hi >= SaturationHundredths THEN {"one"} ELSE {})
        \cup (IF lo <= -OverflowHundredths THEN {"overflow"} ELSE {})

\* The range for a sum the bounds do not decide: `up` picks the extreme one.
SigmoidRange(total, up) ==
    LET rs == SigmoidRanges(total)
    IN  IF "inside" \in rs /\ (~up \/ rs = {"inside"}) THEN "inside"
        ELSE IF "one" \in rs THEN "one" ELSE "overflow"

\* `score['final_score'] = 1 / (1 + math.exp(-total_z))`
FinalScore(z_scores, up) ==
    [range |-> SigmoidRange(TotalZ(z_scores), up), total |-> TotalZ(z_scores)]

WithFinalScores(all_scores, up) ==
    [i \in 1..Len(all_scores) |->
        [all_scores[i] EXCEPT !.final_score = FinalScore(all_scores[i].z_scores, up)]]
    \o <<>>

\* _calculate_final_scores when math.exp does not raise.
_calculate_final_scores(all_scores, up) == WithFinalScores(all_scores, up)

\* math.exp raises for some score of the batch.
Overflows(all_scores, up) ==
    \E i \in 1..Len(all_scores) :
        SigmoidRange(TotalZ(all_scores[i].z_scores), up) = "overflow"

\* The score dictionary _calculate_component_scores builds.
ScoreOf(sa2_code, sa2_name, raw) ==
    [sa2_code |-> sa2_code, sa2_name |-> sa2_name, raw_scores |-> raw,
     z_scores |-> <<>>, final_score |-> [range |-> "none", total |-> <<>>]]

-----------------------------------------------------------------------------
(* The scoring engine: the run, the score store and its readers.            *)

\* The SA2 regions of the source tables with the raw signals the four
\* component queries return for them.
SourceRegions ==
    <<[sa2_code |-> "11701", sa2_name |-> "Sydney",
       raw |-> [business |-> 30, stops |-> 4, schools |-> 7, poi |-> 1]],
      [sa2_code |-> "12501", sa2_name |-> "Parramatta",
       raw |-> [business |-> 10, stops |-> 4, schools |-> 7, poi |-> 0]],
      [sa2_code |-> "12601", sa2_name |-> "Ryde",
       raw |-> [business |-> 20, stops |-> 0, schools |-> 7, poi |-> 0]]>>

\* `sa4_codes = ['117', '125', '126']` when the argument is None.
DefaultSa4Codes == <<"117", "125", "126">>

\* Arguments of calculate_well_resourced_score: None or a list of SA4 codes.
Sa4Args ==
    {[given |-> FALSE, codes |-> <<>>],
     [given |-> TRUE, codes |-> <<"117">>],
     [given |-> TRUE, codes |-> <<"125", "126">>],
     [given |-> TRUE, codes |-> <<"999">>]}

\* `WHERE substring(sa2_code from 1 for 3) = ANY(sa4_codes)`
RECURSIVE RegionsIn(_, _)
RegionsIn(source, sa4_codes) ==
    IF source = <<>> THEN <<>>
    ELSE (IF \E i \in 1..Len(sa4_codes) : SubSeq(Head(source).sa2_code, 1, 3) = sa4_codes[i]
          THEN <<<<Head(source).sa2_code, Head(source).sa2_name>>>> ELSE <<>>)
         \o RegionsIn(Tail(source), sa4_codes)

\* _get_sa2_regions: the (sa2_code, sa2_name) pairs of the given SA4 areas.
_get_sa2_regions(sa4_codes) == RegionsIn(SourceRegions, sa4_codes)

\* The raw signals the component queries return for a region.
RawOf(sa2_code) ==
    (CHOOSE i \in 1..Len(SourceRegions) : SourceRegions[i].sa2_code = sa2_code)

\* `for sa2_code, sa2_name in sa2_regions: all_scores.append(...)`
RECURSIVE ComponentScoresOf(_)
ComponentScoresOf(sa2_regions) ==
    IF sa2_regions = <<>> THEN <<>>
    ELSE <<ScoreOf(Head(sa2_regions)[1], Head(sa2_regions)[2],
                   SourceRegions[RawOf(Head(sa2_regions)[1])].raw)>>
            \o ComponentScoresOf(Tail(sa2_regions))

\* The row the INSERT writes for a score; created_at is left to the database.
Row(score) ==
    [sa2_code |-> score.sa2_code, sa2_name |-> score.sa2_name,
     business_score |-> score.z_scores.business, stops_score |-> score.z_scores.stops,
     schools_score |-> score.z_scores.schools, poi_score |-> score.z_scores.poi,
     total_score |-> score.final_score]

RECURSIVE Rows(_)
Rows(all_scores) ==
    IF all_scores = <<>> THEN <<>> ELSE <<Row(Head(all_scores))>> \o Rows(Tail(all_scores))

\* Faulty variant of Deleted: the old rows stay.
DeletedNothing(table) == table

\* `DELETE FROM sa2_scores` inside the transaction.
Deleted(table) == <<>>

\* Faulty variant of Visible: every statement is committed as it executes.
VisibleUncommitted(committed, tx) == tx

\* What another connection reads while the transaction of
\* _store_scores_in_database is open: the committed rows.
Visible(committed, tx) == committed

\* Faulty variant of AfterClose: the statements executed so far stay.
AfterCloseKeepsWrites(committed, tx) == tx

\* The with block is left by an exception: the connection is closed without
\* commit and its transaction is rolled back.
AfterClose(committed, tx) == committed

\* final_score f is above final_score g beyond the precision of the bounds.
Above(f, g) ==
    \/ f.range = "one" /\ g.range = "inside"
    \/ f.range = "inside" /\ g.range = "inside" /\ TotalLow(f.total) > TotalHigh(g.total)

\* `sorted(all_scores, key=lambda x: x['final_score'], reverse=True)`, stable.
RECURSIVE InsertDescending(_, _)
InsertDescending(sorted, score) ==
    IF sorted = <<>> THEN <<score>>
    ELSE IF Above(score.final_score, Head(sorted).final_score)
         THEN <<score>> \o sorted
         ELSE <<Head(sorted)>> \o InsertDescending(Tail(sorted), score)

RECURSIVE SortedFrom(_, _)
SortedFrom(sorted, rest) ==
    IF rest = <<>> THEN sorted
    ELSE SortedFrom(InsertDescending(sorted, Head(rest)), Tail(rest))

RECURSIVE Names(_)
Names(scores) == IF scores = <<>> THEN <<>> ELSE <<Head(scores).sa2_name>> \o Names(Tail(scores))

\* _generate_summary: the number of regions and the names of the top and
\* bottom five; the float statistics of the summary are left out.
_generate_summary(all_scores) ==
    LET sorted_scores == SortedFrom(<<>>, all_scores)
        n == Len(sorted_scores)
    IN  [total_regions |-> Len(all_scores),
         top_5_regions |-> Names(SubSeq(sorted_scores, 1, Min(5, n))),
         bottom_5_regions |-> Names(SubSeq(sorted_scores, n - Min(5, n) + 1, n))]

\* The engine is not inside a call.
RunIdle ==
    [pc |-> "idle", fn |-> "none", sa4_codes |-> <<>>, sa2_regions |-> <<>>,
     all_scores |-> <<>>, tx |-> <<>>, next |-> 0, before |-> <<>>,
     outcome |-> "none", error |-> "none", raised_at |-> "none",
     summary |-> [total_regions |-> 0, top_5_regions |-> <<>>, bottom_5_regions |-> <<>>],
     pass |-> 1, first |-> <<>>, up |-> FALSE]

\* A step raises: `except Exception as e: logger.error(...); raise`.
RunRaise(r, error, at) ==
    [r EXCEPT !.pc = "done", !.outcome = "raised", !.error = error, !.raised_at = at,
              !.tx = <<>>]

\* The steps of _store_scores_in_database with the connection open.
StoreSteps == {"store_create", "store_delete", "store_insert", "store_commit"}

\* `'correlation': None`
NoCorrelation == [none |-> TRUE, pearson |-> <<>>]

\* No reader has returned a correlation.
NoResult == [returned |-> FALSE, correlation |-> NoCorrelation, sample_size |-> 0]

\* The readers of table sa2_scores.
Readers ==
    {"get_component_breakdown", "get_scores_for_visualization",
     "get_score_correlation_with_income"}

\* No reader has read the table.
NoView ==
    [reader |-> "none", during |-> FALSE, at |-> "none", rows |-> <<>>,
     before |-> <<>>, new |-> <<>>, income |-> <<>>, result |-> NoResult]

\* Raw signals of a region in a direct call of the normalisation.
RawTuples == [business : {10, 20, 30}, stops : {-4, 4}, schools : {7}, poi : {0, 1}]

\* The largest batch of RawTuples in a direct call.
MaxRegions == 3

\* The size of the large batch with one outlier region.
LargeRegions == 88

\* n regions, every signal 0 but for the first region, whose signals are all 1.
OutlierBatch(n) ==
    [i \in 1..n |->
        IF i = 1 THEN [business |-> 1, stops |-> 1, schools |-> 1, poi |-> 1]
        ELSE [business |-> 0, stops |-> 0, schools |-> 0, poi |-> 0]]

\* The size of the batch with two outlier regions.
SaturatedRegions == 210

\* n regions, every signal 0 but for the first two regions: all signals of
\* the second are 1, and so are those of the first but for business, 2.
TwoOutlierBatch(n) ==
    [i \in 1..n |->
        IF i = 1 THEN [business |-> 2, stops |-> 1, schools |-> 1, poi |-> 1]
        ELSE IF i = 2 THEN [business |-> 1, stops |-> 1, schools |-> 1, poi |-> 1]
        ELSE [business |-> 0, stops |-> 0, schools |-> 0, poi |-> 0]]

\* The batches of raw signals of the direct calls.
RawBatches ==
    UNION {[1..n -> RawTuples] : n \in 0..MaxRegions}
        \cup {OutlierBatch(LargeRegions \div 2), OutlierBatch(LargeRegions),
              TwoOutlierBatch(SaturatedRegions)}

\* The score dictionaries of a batch of raw signals.
BatchFrom(raws) == [i \in 1..Len(raws) |-> ScoreOf(i, i, raws[i])] \o <<>>

(* calculate_well_resourced_score                                           *)

StartRun ==
    /\ run.pc = "idle"
    /\ \E arg \in Sa4Args :
        run' = [RunIdle EXCEPT !.pc = "get_regions", !.fn = "calculate",
                               !.sa4_codes = IF arg.given THEN arg.codes ELSE DefaultSa4Codes,
                               !.before = sa2_scores]
    /\ UNCHANGED <<has_st, embedding_model, example_embeddings, calls, loads, detVars, restVars,
                   sa2_scores, reader_view>>

GetRegions ==
    /\ run.pc = "get_regions"
    /\ run' = [run EXCEPT !.pc = "component_scores",
                          !.sa2_regions = _get_sa2_regions(run.sa4_codes)]
    /\ UNCHANGED <<has_st, embedding_model, example_embeddings, calls, loads, detVars, restVars,
                   sa2_scores, reader_view>>

\* Faulty variant of ComponentScores: the score table is cleared before the
\* scores are computed.
ComponentScoresClearsTable ==
    /\ run.pc = "component_scores"
    /\ run' = [run EXCEPT !.pc = "z_scores",
                          !.all_scores = ComponentScoresOf(run.sa2_regions)]
    /\ sa2_scores' = <<>>
    /\ UNCHANGED <<has_st, embedding_model, example_embeddings, calls, loads, detVars, restVars,
                   reader_view>>

\* The loop over sa2_regions calling _calculate_component_scores.
ComponentScores ==
    /\ run.pc = "component_scores"
    /\ run' = [run EXCEPT !.pc = "z_scores",
                          !.all_scores = ComponentScoresOf(run.sa2_regions)]
    /\ UNCHANGED <<has_st, embedding_model, example_embeddings, calls, loads, detVars, restVars,
                   sa2_scores, reader_view>>

\* The query of _get_sa2_regions or a component query of a region raises.
ReadRaises ==
    /\ \/ run.pc = "get_regions"
       \/ run.pc = "component_scores" /\ run.sa2_regions # <<>>
    /\ run' = RunRaise(run, "OperationalError", run.pc)
    /\ UNCHANGED <<has_st, embedding_model, example_embeddings, calls, loads, detVars, restVars,
                   sa2_scores, reader_view>>

\* A direct call of _calculate_z_scores and _calculate_final_scores on one
\* of the given batches.
StartScoringFrom(batches) ==
    /\ run.pc = "idle"
    /\ \E raws \in batches :
        run' = [RunIdle EXCEPT !.pc = "z_scores", !.fn = "scoring",
                               !.all_scores = BatchFrom(raws),
                               !.before = sa2_scores]
    /\ UNCHANGED <<has_st, embedding_model, example_embeddings, calls, loads, detVars, restVars,
                   sa2_scores, reader_view>>

\* A direct call of _calculate_z_scores and _calculate_final_scores.
StartScoring == StartScoringFrom(RawBatches)

\* The two functions are called again on the list they returned, whose
\* dictionaries they have written `z_scores` and `final_score` into.
ScoreAgain ==
    /\ run.fn = "scoring"
    /\ run.pc = "done"
    /\ run.outcome = "returned"
    /\ run.pass = 1
    /\ run' = [run EXCEPT !.pc = "z_scores", !.outcome = "none", !.pass = 2,
                          !.first = run.all_scores]
    /\ UNCHANGED <<has_st, embedding_model, example_embeddings, calls, loads, detVars, restVars,
                   sa2_scores, reader_view>>

\* _calculate_z_scores; `sum(values) / len(values)` divides by zero on an
\* empty batch.
ZScores ==
    /\ run.pc = "z_scores"
    /\ run' = IF run.all_scores = <<>>
              THEN RunRaise(run, "ZeroDivisionError", "z_scores")
              ELSE [run EXCEPT !.pc = "final_scores",
                               !.all_scores = _calculate_z_scores(run.all_scores)]
    /\ UNCHANGED <<has_st, embedding_model, example_embeddings, calls, loads, detVars, restVars,
                   sa2_scores, reader_view>>

\* _calculate_final_scores; math.exp is a function: in a second pass it
\* rounds the sums as it did in the first.
FinalScores ==
    /\ run.pc = "final_scores"
    /\ \E up \in IF run.pass = 1 THEN BOOLEAN ELSE {run.up} :
        run' = IF Overflows(run.all_scores, up)
               THEN RunRaise(run, "OverflowError", "final_scores")
               ELSE LET r == [run EXCEPT !.all_scores = _calculate_final_scores(run.all_scores, up),
                                         !.up = up]
                    IN  IF run.fn = "calculate"
                        THEN [r EXCEPT !.pc = "store_connect"]
                        ELSE [r EXCEPT !.pc = "done", !.outcome = "returned"]
    /\ UNCHANGED <<has_st, embedding_model, example_embeddings, calls, loads, detVars, restVars,
                   sa2_scores, reader_view>>

(* _store_scores_in_database                                                *)

\* `with self.db_engine.connect() as conn:`; the first statement begins the
\* transaction of the connection.
StoreConnect ==
    /\ run.pc = "store_connect"
    /\ run' = [run EXCEPT !.pc = "store_create", !.tx = sa2_scores]
    /\ UNCHANGED <<has_st, embedding_model, example_embeddings, calls, loads, detVars, restVars,
                   sa2_scores, reader_view>>

\* CREATE TABLE IF NOT EXISTS sa2_scores
StoreCreate ==
    /\ run.pc = "store_create"
    /\ run' = [run EXCEPT !.pc = "store_delete"]
    /\ UNCHANGED <<has_st, embedding_model, example_embeddings, calls, loads, detVars, restVars,
                   sa2_scores, reader_view>>

StoreDelete ==
    /\ run.pc = "store_delete"
    /\ run' = [run EXCEPT !.pc = IF run.all_scores = <<>> THEN "store_commit" ELSE "store_insert",
                          !.tx = Deleted(run.tx), !.next = 1]
    /\ UNCHANGED <<has_st, embedding_model, example_embeddings, calls, loads, detVars, restVars,
                   sa2_scores, reader_view>>

\* One INSERT of the loop over all_scores.
StoreInsert ==
    /\ run.pc = "store_insert"
    /\ run' = [run EXCEPT !.tx = Append(run.tx, Row(run.all_scores[run.next])),
                          !.next = run.next + 1,
                          !.pc = IF run.next = Len(run.all_scores)
                                 THEN "store_commit" ELSE "store_insert"]
    /\ UNCHANGED <<has_st, embedding_model, example_embeddings, calls, loads, detVars, restVars,
                   sa2_scores, reader_view>>

\* conn.commit()
StoreCommit ==
    /\ run.pc = "store_commit"
    /\ sa2_scores' = run.tx
    /\ run' = [run EXCEPT !.pc = "summary", !.tx = <<>>]
    /\ UNCHANGED <<has_st, embedding_model, example_embeddings, calls, loads, detVars, restVars,
                   reader_view>>

\* connect(), a statement or the commit raises.
StoreRaises ==
    /\ run.pc \in StoreSteps \cup {"store_connect"}
    /\ sa2_scores' = AfterClose(sa2_scores, run.tx)
    /\ run' = RunRaise(run, "OperationalError", run.pc)
    /\ UNCHANGED <<has_st, embedding_model, example_embeddings, calls, loads, detVars, restVars,
                   reader_view>>

\* `return self._generate_summary(all_scores)`
GenerateSummary ==
    /\ run.pc = "summary"
    /\ run' = [run EXCEPT !.pc = "done", !.outcome = "returned",
                          !.summary = _generate_summary(run.all_scores)]
    /\ UNCHANGED <<has_st, embedding_model, example_embeddings, calls, loads, detVars, restVars,
                   sa2_scores, reader_view>>

\* The caller has taken the summary (or the exception).
FinishRun ==
    /\ run.pc = "done"
    /\ run' = RunIdle
    /\ UNCHANGED <<has_st, embedding_model, example_embeddings, calls, loads, detVars, restVars,
                   sa2_scores, reader_view>>

\* A reader runs its SELECT on a connection of its own.
ReadScoreTable ==
    /\ \E reader \in Readers :
        reader_view' =
            IF run.pc \in StoreSteps
            THEN [reader |-> reader, during |-> TRUE, at |-> run.pc,
                  rows |-> Visible(sa2_scores, run.tx),
                  before |-> run.before, new |-> Rows(run.all_scores),
                  income |-> <<>>, result |-> NoResult]
            ELSE [NoView EXCEPT !.reader = reader, !.rows = Visible(sa2_scores, sa2_scores)]
    /\ UNCHANGED <<has_st, embedding_model, example_embeddings, calls, loads, detVars, restVars,
                   sa2_scores, run>>

-----------------------------------------------------------------------------
(* The objects the selector returns and the module-level objects.           *)
(*                                                                          *)
(* A returned dict is either a module-level object (named by its global)    *)
(* or a dict created by the call.                                           *)

ModuleObjects == {"DEFAULT_WEIGHTS", "EXAMPLE_QUERIES", "FALLBACK_KEYWORDS"}

\* Faulty variant of DictCopy: the object itself is handed out.
DictCopyShares(obj) == obj

\* `DEFAULT_WEIGHTS.copy()`: a new dict with the items of the module object.
DictCopy(obj) == "new dict"

\* _infer_weights_keyword takes `return DEFAULT_WEIGHTS.copy()` (lines 243
\* and 252) and not the dict comprehension of line 255.
KeywordDefault(query) ==
    LET text == Lower(Strip(OrEmpty(query)))
    IN  text = "" \/ (\A k \in Categories : KeywordScores(text)[k] = RZero)

\* The call returns a copy of DEFAULT_WEIGHTS: line 266, or lines 243 and
\* 252 through _infer_weights_keyword.
ReturnsDefault(c) == c.mode = "default" \/ (c.mode = "keyword" /\ KeywordDefault(c.query))

\* The object a returned call hands to its caller: a copy of
\* DEFAULT_WEIGHTS, the local `agg` of line 309 or the dict of line 255.
ReturnedObject(c) == IF ReturnsDefault(c) THEN DictCopy("DEFAULT_WEIGHTS") ELSE "new dict"

\* The items of the object a returned call hands out, read when it returns.
Delivered(c) == IF ReturnsDefault(c) THEN catalog.DEFAULT_WEIGHTS ELSE c.result

\* What a caller writes into a vector it was given.
Scribbled == Weights(100, 0, 0, 0, 0)

\* The caller of a returned call overwrites the items of the vector it got.
MutateResult(t) ==
    /\ calls[t].pc = "done"
    /\ calls[t].outcome = "returned"
    /\ calls[t].result # Scribbled
    /\ calls' = [calls EXCEPT ![t].result = Scribbled]
    /\ catalog' = LET obj == ReturnedObject(calls[t])
                  IN  IF obj \in ModuleObjects
                      THEN [catalog EXCEPT ![obj] = Scribbled]
                      ELSE catalog
    /\ UNCHANGED <<has_st, embedding_model, example_embeddings, loads, detVars, scoreVars,
                   recommend, request>>

-----------------------------------------------------------------------------
(* get_score_correlation_with_income                                        *)

\* The region codes of the rows of table income: two scored regions and a
\* region the engine never scores.
IncomeCodes == <<"11701", "12501", "10101">>

\* median_income of a row: NULL or a number.
NullIncome == [null |-> TRUE, value |-> 0]
Income(v) == [null |-> FALSE, value |-> v]

NoIncomeRow == [row |-> FALSE, median_income |-> NullIncome]
IncomeRow(m) == [row |-> TRUE, median_income |-> m]

\* What table income can hold for a region: no row, or a row with NULL, a
\* negative number, zero or a positive number.
IncomeChoices(code) ==
    CASE code = "11701" -> {NoIncomeRow, IncomeRow(NullIncome), IncomeRow(Income(52000))}
      [] code = "12501" -> {IncomeRow(Income(-1)), IncomeRow(Income(0)), IncomeRow(Income(78000))}
      [] OTHER          -> {NoIncomeRow, IncomeRow(Income(61000))}

RECURSIVE IncomeRows(_, _)
IncomeRows(f, codes) ==
    IF codes = <<>> THEN <<>>
    ELSE (IF f[Head(codes)].row
          THEN <<[sa2_code |-> Head(codes), median_income |-> f[Head(codes)].median_income]>>
          ELSE <<>>)
         \o IncomeRows(f, Tail(codes))

\* The contents of table income the reader can find.
IncomeTables ==
    {IncomeRows(f, IncomeCodes) :
        f \in {g \in [{IncomeCodes[k] : k \in 1..Len(IncomeCodes)} ->
                        UNION {IncomeChoices(IncomeCodes[k]) : k \in 1..Len(IncomeCodes)}] :
                    \A k \in 1..Len(IncomeCodes) : g[IncomeCodes[k]] \in IncomeChoices(IncomeCodes[k])}}

\* Faulty variant of IncomePresent: a median income of zero or less passes.
IncomeNotNull(m) == ~m.null

\* `WHERE i.median_income IS NOT NULL AND i.median_income > 0`
IncomePresent(m) == ~m.null /\ m.value > 0

\* The rows of income joined to a row of sa2_scores.
RECURSIVE JoinRow(_, _)
JoinRow(s, income) ==
    IF income = <<>> THEN <<>>
    ELSE (IF s.sa2_code = Head(income).sa2_code /\ IncomePresent(Head(income).median_income)
          THEN <<[total_score |-> s.total_score,
                  median_income |-> Head(income).median_income.value]>>
          ELSE <<>>)
         \o JoinRow(s, Tail(income))

\* `FROM sa2_scores s JOIN income i ON s.sa2_code = i.sa2_code WHERE ...`
RECURSIVE JoinIncome(_, _)
JoinIncome(scores, income) ==
    IF scores = <<>> THEN <<>>
    ELSE JoinRow(Head(scores), income) \o JoinIncome(Tail(scores), income)

\* The dict the function returns for the data frame df; the Pearson
\* coefficient is kept as the pairs it is computed from.
CorrelationOf(df) ==
    IF Len(df) > 0
    THEN [returned |-> TRUE, correlation |-> [none |-> FALSE, pearson |-> df],
          sample_size |-> Len(df)]
    ELSE [returned |-> TRUE, correlation |-> NoCorrelation, sample_size |-> 0]

\* get_score_correlation_with_income over some contents of table income; its
\* connection reads the committed rows of sa2_scores.
GetScoreCorrelation ==
    /\ \E income \in IncomeTables :
        LET rows == IF run.pc \in StoreSteps THEN Visible(sa2_scores, run.tx)
                    ELSE Visible(sa2_scores, sa2_scores)
        IN  reader_view' =
                [NoView EXCEPT !.reader = "get_score_correlation_with_income",
                               !.rows = rows, !.income = income,
                               !.result = CorrelationOf(JoinIncome(rows, income))]
    /\ UNCHANGED <<has_st, embedding_model, example_embeddings, calls, loads, detVars, restVars,
                   sa2_scores, run>>

-----------------------------------------------------------------------------
(* get_recommendations (backend/api/app.py and web_app/app.py)              *)

\* `return recommendations[:10]`
TopN == 10

\* The two applications that define the endpoint.
Apps == {"backend", "web_app"}

\* A row of the data frame: a region with its total and its five counts.
PoiRow(name, total, r, c, t, e, u) ==
    [sa4_name |-> name, total_pois |-> total,
     counts |-> [recreation |-> r, community |-> c, transport |-> t,
                 education |-> e, utility |-> u]]

\* Rows the query can return for a region (HAVING COUNT(*) >= 20).
SmallRows ==
    { PoiRow("Ryde", 20, 10, 5, 5, 0, 0),
      PoiRow("Parramatta", 30, 0, 0, 0, 0, 30),
      PoiRow("Sydney - City", 50, 8, 8, 8, 8, 8),
      PoiRow("Blacktown", 30, 6, 6, 6, 6, 6) }

\* The size of the data frame with more rows than the endpoint returns.
ManyRegions == 12

\* n rows: the first has the most POIs and none of utility, row i of the
\* others has 20 + i POIs, i of them of utility.
ManyRows(n) ==
    [i \in 1..n |->
        IF i = 1 THEN PoiRow(1, 100, 90, 10, 0, 0, 0)
        ELSE PoiRow(i, 20 + i, 20, 0, 0, 0, i)]

\* The frames of up to three distinct rows of SmallRows, in any order, and
\* the frame of ManyRegions rows.
PoiFrames ==
    UNION {{df \in [1..n -> SmallRows] : \A i, j \in 1..n : i # j => df[i] # df[j]} :
                n \in 0..3}
        \cup {ManyRows(ManyRegions)}

\* The weights of the request body.
PreferenceChoices ==
    {DEFAULT_WEIGHTS, Weights(0, 0, 0, 0, 100), Weights(-50, 50, 0, 0, 100)}

\* Faulty variant of MaxPois: the total of the first row of the frame.
MaxPoisFirstRow(df) == df[1].total_pois

\* `max_pois = df['total_pois'].max()`
MaxPois(df) ==
    CHOOSE m \in {df[i].total_pois : i \in 1..Len(df)} :
        \A i \in 1..Len(df) : df[i].total_pois <= m

\* `row['X_count'] / max_pois if max_pois > 0 else 0`
Normalized(count, max_pois) == IF max_pois > 0 THEN Rat(count, max_pois) ELSE RZero

\* The weighted score of a row: the five products added in the order of the
\* expression.
RECURSIVE WeightedSum(_, _, _, _)
WeightedSum(preferences, counts, max_pois, keys) ==
    IF keys = <<>> THEN RZero
    ELSE RAdd(RMul(preferences[Head(keys)], Normalized(counts[Head(keys)], max_pois)),
              WeightedSum(preferences, counts, max_pois, Tail(keys)))

RowScore(preferences, row, max_pois) ==
    WeightedSum(preferences, row.counts, max_pois, CategoryOrder)

\* SuburbRecommendation(...) of a row.
Recommendation(preferences, row, max_pois) ==
    [suburb_name |-> row.sa4_name, score |-> RowScore(preferences, row, max_pois),
     poi_counts |-> row.counts, total_pois |-> row.total_pois]

\* The loop over df.iterrows().
Recommendations(preferences, df) ==
    [i \in 1..Len(df) |-> Recommendation(preferences, df[i], MaxPois(df))] \o <<>>

\* x is put behind every recommendation whose score is not lower.
RECURSIVE InsertByScore(_, _)
InsertByScore(x, sorted) ==
    IF sorted = <<>> THEN <<x>>
    ELSE IF RLeq(x.score, Head(sorted).score) THEN <<Head(sorted)>> \o InsertByScore(x, Tail(sorted))
    ELSE <<x>> \o sorted

\* `recommendations.sort(key=lambda x: x.score, reverse=True)`: a stable
\* sort, recommendations of equal score keep their order.
RECURSIVE SortByScore(_)
SortByScore(recs) ==
    IF recs = <<>> THEN <<>>
    ELSE InsertByScore(recs[Len(recs)], SortByScore(SubSeq(recs, 1, Len(recs) - 1)))

\* `recommendations[:10]`
Top(recs) == SubSeq(recs, 1, IF Len(recs) < TopN THEN Len(recs) ELSE TopN)

\* The request fails with an HTTPException of the given status.
RecommendRaise(r, status) == [r EXCEPT !.pc = "done", !.outcome = "raised", !.status = status]

\* `if df.empty: raise HTTPException(status_code=404, ...)`; web_app catches
\* it with `except Exception` and answers 500.
EmptyStatus(app) == IF app = "backend" THEN 404 ELSE 500

\* The endpoint from the request to the response: the engine check of the
\* backend, the query, the scores, the sort and the cut.
GetRecommendations ==
    /\ recommend.pc = "idle"
    /\ \E app \in Apps, preferences \in PreferenceChoices :
        LET r == [RecommendIdle EXCEPT !.app = app, !.preferences = preferences]
        IN  \/ /\ app = "backend"
               /\ recommend' = RecommendRaise(r, 503)
            \/ recommend' = RecommendRaise(r, 500)
            \/ \E df \in PoiFrames :
                recommend' =
                    IF df = <<>> THEN RecommendRaise([r EXCEPT !.df = df], EmptyStatus(app))
                    ELSE [r EXCEPT !.pc = "done", !.df = df, !.outcome = "returned",
                                   !.recommendations =
                                        Top(SortByScore(Recommendations(preferences, df)))]
    /\ UNCHANGED <<has_st, embedding_model, example_embeddings, calls, loads, detVars, scoreVars,
                   catalog, request>>

\* The response has been sent.
FinishRecommend ==
    /\ recommend.pc = "done"
    /\ recommend' = RecommendIdle
    /\ UNCHANGED <<has_st, embedding_model, example_embeddings, calls, loads, detVars, scoreVars,
                   catalog, request>>

-----------------------------------------------------------------------------
(* NSWDataCollector._make_request (src/data/collectors/nsw_data_collector.py) *)

\* The largest value of the parameter `retries`.
MaxRetries == 3

\* The subclasses of requests.exceptions.RequestException an attempt can
\* raise: from session.get, from raise_for_status and from response.json.
RequestExceptions == {"ConnectionError", "Timeout", "HTTPError", "JSONDecodeError"}

\* The parsed bodies a successful attempt can return.
Bodies == {"{}", "{\"result\": []}"}

\* Faulty variant of SleepsAfter: a delay follows the last attempt too.
SleepsAfterEvery(attempt, retries) == attempt < retries

\* `if attempt < retries - 1:`
SleepsAfter(attempt, retries) == attempt < retries - 1

\* `for attempt in range(retries)`: the loop goes on to the given attempt, or
\* it is exhausted and the function returns None implicitly.
LoopAt(r, attempt) ==
    IF attempt < r.retries
    THEN [r EXCEPT !.pc = "attempt", !.attempt = attempt]
    ELSE [r EXCEPT !.pc = "done", !.returned = TRUE, !.result = None]

\* A call with some value of `retries`.
MakeRequest ==
    /\ request.pc = "idle"
    /\ \E retries \in 0..MaxRetries :
        request' = LoopAt([RequestIdle EXCEPT !.retries = retries], 0)
    /\ UNCHANGED <<has_st, embedding_model, example_embeddings, calls, loads, detVars, scoreVars,
                   catalog, recommend>>

\* session.get, raise_for_status and response.json succeed:
\* `return response.json()`.
AttemptSucceeds ==
    /\ request.pc = "attempt"
    /\ \E body \in Bodies :
        request' = [request EXCEPT !.pc = "done", !.gets = @ + 1, !.returned = TRUE,
                                   !.result = body]
    /\ UNCHANGED <<has_st, embedding_model, example_embeddings, calls, loads, detVars, scoreVars,
                   catalog, recommend>>

\* The attempt raises a RequestException: the handler goes to the delay, or
\* after the last attempt returns None.
AttemptFails ==
    /\ request.pc = "attempt"
    /\ \E e \in RequestExceptions :
        LET r == [request EXCEPT !.gets = @ + 1, !.failures = Append(@, e)]
        IN  request' = IF SleepsAfter(request.attempt, request.retries)
                       THEN [r EXCEPT !.pc = "sleep"]
                       ELSE [r EXCEPT !.pc = "done", !.returned = TRUE, !.result = None]
    /\ UNCHANGED <<has_st, embedding_model, example_embeddings, calls, loads, detVars, scoreVars,
                   catalog, recommend>>

\* `time.sleep(retry_delay)` returns and the loop goes on.
Sleep ==
    /\ request.pc = "sleep"
    /\ request' = LoopAt([request EXCEPT !.sleeps = @ + 1], request.attempt + 1)
    /\ UNCHANGED <<has_st, embedding_model, example_embeddings, calls, loads, detVars, scoreVars,
                   catalog, recommend>>

\* The caller has taken the result.
FinishRequest ==
    /\ request.pc = "done"
    /\ request' = RequestIdle
    /\ UNCHANGED <<has_st, embedding_model, example_embeddings, calls, loads, detVars, scoreVars,
                   catalog, recommend>>

-----------------------------------------------------------------------------
(* Specifications.                                                          *)

Init ==
    /\ has_st \in BOOLEAN
    /\ embedding_model = None
    /\ example_embeddings = None
    /\ calls = [t \in Callers |-> Idle]
    /\ loads = NoLoads
    /\ embed_memo = NoMemo
    /\ history = NoHistory
    /\ sa2_scores = <<>>
    /\ run = RunIdle
    /\ reader_view = NoView
    /\ catalog = ImportedCatalog
    /\ recommend = RecommendIdle
    /\ request = RequestIdle

Next ==
    \E t \in Callers :
        \/ CallEmpty(t)
        \/ CallNoLibrary(t)
        \/ CallSemantic(t)
        \/ GetStateCheck(t)
        \/ LoadModelOk(t)
        \/ LoadModelRaises(t)
        \/ EncodeExamplesOk(t)
        \/ EncodeExamplesRaises(t)
        \/ AssertEmbeddings(t)
        \/ Semantic(t)
        \/ SemanticRaises(t)
        \/ Finish(t)

Spec == Init /\ [][Next]_vars

\* Direct calls of the keyword mapper on every text of KeywordTexts.
NextKeyword ==
    \E t \in Callers :
        \/ CallKeyword(t)
        \/ Finish(t)

SpecKeyword == Init /\ [][NextKeyword]_vars

\* Repeated calls of the selector over the capability that answers the same
\* text with the same vector; the caller remembers every result.
NextDet ==
    \E t \in Callers :
        \/ CallEmpty(t)
        \/ CallNoLibrary(t)
        \/ CallSemantic(t)
        \/ GetStateCheck(t)
        \/ LoadModelOk(t)
        \/ LoadModelRaises(t)
        \/ EncodeExamplesOk(t)
        \/ EncodeExamplesRaises(t)
        \/ AssertEmbeddings(t)
        \/ SemanticDet(t)
        \/ SemanticRaises(t)
        \/ FinishDet(t)

SpecDet == Init /\ [][NextDet]_vars

\* Two callers inside infer_weights_from_nl_query at the same time, the
\* library being installed; every step of a caller is one interleaving point.
InitConc ==
    /\ has_st = TRUE
    /\ embedding_model = None
    /\ example_embeddings = None
    /\ calls = [t \in ConcCallers |-> Idle]
    /\ loads = NoLoads
    /\ embed_memo = NoMemo
    /\ history = NoHistory
    /\ sa2_scores = <<>>
    /\ run = RunIdle
    /\ reader_view = NoView
    /\ catalog = ImportedCatalog
    /\ recommend = RecommendIdle
    /\ request = RequestIdle

NextConc ==
    \E t \in ConcCallers :
        \/ CallEmpty(t)
        \/ CallSemantic(t)
        \/ GetStateCheck(t)
        \/ LoadModelOk(t)
        \/ LoadModelRaises(t)
        \/ EncodeExamplesOk(t)
        \/ EncodeExamplesRaises(t)
        \/ AssertEmbeddings(t)
        \/ SemanticDet(t)
        \/ SemanticRaises(t)
        \/ Finish(t)

SpecConc == InitConc /\ [][NextConc]_vars

\* The scoring engine after construction, table sa2_scores being empty; the
\* inference module is idle and takes no step.
InitEngine ==
    /\ has_st = FALSE
    /\ embedding_model = None
    /\ example_embeddings = None
    /\ calls = [t \in Callers |-> Idle]
    /\ loads = NoLoads
    /\ embed_memo = NoMemo
    /\ history = NoHistory
    /\ sa2_scores = <<>>
    /\ run = RunIdle
    /\ reader_view = NoView
    /\ catalog = ImportedCatalog
    /\ recommend = RecommendIdle
    /\ request = RequestIdle

\* Runs of calculate_well_resourced_score over the source tables, one after
\* the other, with readers of the score table at any moment.
NextScore ==
    \/ StartRun
    \/ GetRegions
    \/ ComponentScores
    \/ ReadRaises
    \/ ZScores
    \/ FinalScores
    \/ StoreConnect
    \/ StoreCreate
    \/ StoreDelete
    \/ StoreInsert
    \/ StoreCommit
    \/ StoreRaises
    \/ GenerateSummary
    \/ FinishRun
    \/ ReadScoreTable

SpecScore == InitEngine /\ [][NextScore]_vars

\* Direct calls of the normalisation and of the sigmoid on every batch of
\* RawBatches.
NextScoring ==
    \/ StartScoring
    \/ ZScores
    \/ FinalScores
    \/ FinishRun

SpecScoring == InitEngine /\ [][NextScoring]_vars

\* The texts the keyword mapper is called with directly.
AliasTexts == {None, "", "x", "gym", "Uni bus"}

\* The caller remembers the copies of DEFAULT_WEIGHTS that it got from the
\* selector and has overwritten.
Remembered(t) ==
    calls[t].fn = "infer" /\ ReturnsDefault(calls[t]) /\ calls[t].result = Scribbled

\* Calls of the selector and of the keyword mapper whose callers overwrite
\* the vectors they are given.
NextAlias ==
    \E t \in Callers :
        \/ CallEmpty(t)
        \/ CallNoLibrary(t)
        \/ CallSemantic(t)
        \/ GetStateCheck(t)
        \/ LoadModelOk(t)
        \/ LoadModelRaises(t)
        \/ EncodeExamplesOk(t)
        \/ EncodeExamplesRaises(t)
        \/ AssertEmbeddings(t)
        \/ SemanticDet(t)
        \/ SemanticRaises(t)
        \/ CallKeywordFrom(t, AliasTexts)
        \/ MutateResult(t)
        \/ (Remembered(t) /\ FinishDet(t))
        \/ (~Remembered(t) /\ Finish(t))

SpecAlias == Init /\ [][NextAlias]_vars

\* The batches the two scoring functions are run on twice.
RepeatBatches ==
    UNION {[1..n -> RawTuples] : n \in 0..(MaxRegions - 1)}
        \cup {OutlierBatch(LargeRegions \div 2), OutlierBatch(LargeRegions)}

\* Direct calls of the normalisation and of the sigmoid, repeated on the
\* list they returned.
NextRepeat ==
    \/ StartScoringFrom(RepeatBatches)
    \/ ZScores
    \/ FinalScores
    \/ ScoreAgain
    \/ FinishRun

SpecRepeat == InitEngine /\ [][NextRepeat]_vars

\* Runs of the engine that do not fail, and the correlation of the stored
\* scores with the incomes.
NextIncome ==
    \/ StartRun
    \/ GetRegions
    \/ ComponentScores
    \/ ZScores
    \/ FinalScores
    \/ StoreConnect
    \/ StoreCreate
    \/ StoreDelete
    \/ StoreInsert
    \/ StoreCommit
    \/ GenerateSummary
    \/ FinishRun
    \/ GetScoreCorrelation

SpecIncome == InitEngine /\ [][NextIncome]_vars

\* Requests to the recommendation endpoint.
NextRecommend ==
    \/ GetRecommendations
    \/ FinishRecommend

SpecRecommend == InitEngine /\ [][NextRecommend]_vars

\* Calls of _make_request.
NextRequest ==
    \/ MakeRequest
    \/ AttemptSucceeds
    \/ AttemptFails
    \/ Sleep
    \/ FinishRequest

\* An attempt ends, by the response or by the timeout of session.get, and
\* time.sleep returns.
SpecRequest ==
    /\ InitEngine
    /\ [][NextRequest]_vars
    /\ WF_vars(AttemptSucceeds \/ AttemptFails)
    /\ WF_vars(Sleep)

-----------------------------------------------------------------------------
(* Properties.                                                              *)

\* A finished call of infer_weights_from_nl_query by caller t.
InferDone(t) == calls[t].pc = "done" /\ calls[t].fn = "infer"

\* A finished direct call of _infer_weights_keyword by caller t.
KeywordDone(t) == calls[t].pc = "done" /\ calls[t].fn = "keyword"

\* None, empty, or whitespace only.
IsBlank(q) == q = None \/ \A i \in 1..Len(q) : CharAt(q, i) \in {" ", "\t", "\n"}

\* The DEFAULT vector of the specification: 0.25, 0.25, 0.25, 0.15, 0.10.
DefaultVector ==
    [k \in Categories |->
        CASE k \in {"recreation", "community", "transport"} -> <<1, 4>>
          [] k = "education" -> <<3, 20>>
          [] k = "utility"   -> <<1, 10>>]

\* Five keys, each value >= 0, the sum within 1e-6 of 1.
IsWeightVector(w) ==
    /\ DOMAIN w = Categories
    /\ \A k \in Categories : w[k][1] >= 0
    /\ LET diff == RAdd(SumValues(w), Rat(-1, 1))
       IN  Abs(diff[1]) * 1000000 <= diff[2]

\* The trigger phrases of category k that occur in the lower-cased text.
PhrasesFound(k, text) ==
    {w \in {FALLBACK_KEYWORDS[k][i] : i \in 1..Len(FALLBACK_KEYWORDS[k])} :
        \E pre, post \in 0..Len(text) :
            /\ pre + Len(w) + post = Len(text)
            /\ SubSeq(text, 1, pre) \o w \o SubSeq(text, Len(text) - post + 1, Len(text)) = text}

FoundCount(k, text) == Cardinality(PhrasesFound(k, text))

FoundTotal(text) ==
    FoundCount("recreation", text) + FoundCount("community", text)
        + FoundCount("transport", text) + FoundCount("education", text)
        + FoundCount("utility", text)

\* The text the keyword mapper searches: trimmed and lower-cased.
SearchedText(q) == Lower(Strip(OrEmpty(q)))

\* C1: every vector infer_weights_from_nl_query returns has exactly the five
\* keys, each value >= 0, and the values sum to 1.0 within 1e-6, whatever the
\* similarities the embedding model produced.
C1_ReturnsWeightVector ==
    \A t \in DOMAIN calls :
        (InferDone(t) /\ calls[t].outcome = "returned") => IsWeightVector(calls[t].result)

\* C2: infer_weights_from_nl_query never raises: whatever step of the
\* embedding path fails, the call ends by returning a weight dict.
C2_NeverRaises ==
    \A t \in DOMAIN calls :
        InferDone(t) =>
            /\ calls[t].outcome = "returned"
            /\ DOMAIN calls[t].result = Categories

C2_Witness ==
    \E t \in DOMAIN calls :
        /\ InferDone(t)
        /\ calls[t].raised = "assert"
        /\ calls[t].outcome = "returned"

\* C3: an empty or whitespace-only query returns exactly DEFAULT, in every
\* state of the embedding cache, and the embedding model is not invoked.
C3_BlankQueryDefault ==
    \A t \in DOMAIN calls :
        (InferDone(t) /\ IsBlank(calls[t].arg)) =>
            /\ calls[t].outcome = "returned"
            /\ calls[t].result = DefaultVector
            /\ calls[t].invoked = {}

C3_Witness ==
    \E t \in DOMAIN calls :
        /\ InferDone(t)
        /\ calls[t].arg = " \t "
        /\ embedding_model # None
        /\ example_embeddings = None
        /\ calls[t].result = DefaultVector

\* C4: without the sentence-transformers library, a non-empty query returns
\* exactly the keyword result, no model is loaded and the cache stays unset.
C4_NoLibraryKeyword ==
    ~has_st =>
        /\ embedding_model = None
        /\ example_embeddings = None
        /\ \A t \in DOMAIN calls :
            (InferDone(t) /\ ~IsBlank(calls[t].arg)) =>
                /\ calls[t].outcome = "returned"
                /\ calls[t].result = _infer_weights_keyword(calls[t].arg)
                /\ calls[t].invoked = {}

C4_Witness ==
    \E t \in DOMAIN calls :
        /\ ~has_st
        /\ InferDone(t)
        /\ calls[t].arg = " Uni bus\n"
        /\ calls[t].result["transport"] = <<1, 2>>
        /\ calls[t].result["education"] = <<1, 2>>

\* C5: when a step of semantic mode raises, the call returns exactly the
\* keyword result of the same query and the error does not reach the caller.
C5_RaiseFallsBack ==
    \A t \in DOMAIN calls :
        (InferDone(t) /\ calls[t].raised # "none") =>
            /\ calls[t].outcome = "returned"
            /\ calls[t].result = _infer_weights_keyword(calls[t].arg)

C5_Witness ==
    \E t \in DOMAIN calls :
        /\ InferDone(t)
        /\ calls[t].raised = "similarity"
        /\ calls[t].arg = " Uni bus\n"
        /\ calls[t].result["transport"] = <<1, 2>>

\* The similarities of the entries caller t's call selected.
SelectedSims(t) == {calls[t].sims[calls[t].idx[j]] : j \in 1..Len(calls[t].idx)}

SelectedAllNonPositive(t) == \A x \in SelectedSims(t) : x[1] <= 0

SelectedAllNonNegative(t) == \A x \in SelectedSims(t) : x[1] >= 0

\* C6: in semantic mode, when every selected similarity is <= 0 the call
\* returns exactly the keyword result; when one is > 0 (and nothing raises)
\* the keyword mode is not used.
C6_DissimilarFallsBack ==
    \A t \in DOMAIN calls :
        (InferDone(t) /\ calls[t].sims # <<>>) =>
            IF SelectedAllNonPositive(t)
            THEN /\ calls[t].mode = "keyword"
                 /\ calls[t].result = _infer_weights_keyword(calls[t].arg)
            ELSE calls[t].mode = "semantic"

C6_Witness ==
    \E t \in DOMAIN calls :
        /\ InferDone(t)
        /\ calls[t].sims = [i \in 1..6 |-> IF i = 2 THEN <<0, 1>> ELSE <<-1, 10>>]
        /\ calls[t].arg = " Uni bus\n"
        /\ calls[t].mode = "keyword"
        /\ calls[t].result["transport"] = <<1, 2>>

\* C7: in semantic mode with positive top similarities, the K = min(3, catalog
\* size) selected entries are those of highest similarity, and for every
\* category c the result is sum_i(s_i * w_i[c]) / sum_i(s_i) over the selected
\* entries, the five values summing to 1.
C7_WeightedBlend ==
    \A t \in DOMAIN calls :
        (/\ InferDone(t)
         /\ calls[t].sims # <<>>
         /\ SelectedAllNonNegative(t)
         /\ ~SelectedAllNonPositive(t)) =>
            LET sims == calls[t].sims
                idx == calls[t].idx
                chosen == {idx[j] : j \in 1..Len(idx)}
                sumS == RSumSeq([j \in 1..Len(idx) |-> sims[idx[j]]] \o <<>>)
            IN  /\ Len(idx) = IF Len(EXAMPLE_QUERIES) < 3 THEN Len(EXAMPLE_QUERIES) ELSE 3
                /\ Cardinality(chosen) = Len(idx)
                /\ \A i \in chosen : \A j \in (1..Len(sims)) \ chosen : RLeq(sims[j], sims[i])
                /\ \A c \in Categories :
                    RMul(calls[t].result[c], sumS)
                        = RSumSeq([j \in 1..Len(idx) |->
                                    RMul(sims[idx[j]], EXAMPLE_QUERIES[idx[j]][c])] \o <<>>)
                /\ SumValues(calls[t].result) = <<1, 1>>

\* Similarities 0.9, 0.5, 0.1 for the first three entries: the blend is
\* (9 * w1 + 5 * w2 + 1 * w3) / 15.
C7_Witness ==
    \E t \in DOMAIN calls :
        /\ InferDone(t)
        /\ calls[t].sims = <<<<9, 10>>, <<1, 2>>, <<1, 10>>, <<0, 1>>, <<-1, 10>>, <<-1, 10>>>>
        /\ calls[t].idx = <<1, 2, 3>>
        /\ calls[t].result["recreation"] = <<37, 150>>
        /\ calls[t].result["utility"] = <<2, 25>>

\* C8: keyword mode scores a category by the number of its distinct trigger
\* phrases that occur in the lower-cased text; when a phrase matches, each
\* weight is the category's score divided by the sum of the five scores.
C8_PresenceScores ==
    \A t \in DOMAIN calls :
        LET text == SearchedText(calls[t].arg)
        IN  (KeywordDone(t) /\ FoundTotal(text) > 0) =>
                \A k \in Categories :
                    calls[t].result[k] = Rat(FoundCount(k, text), FoundTotal(text))

C8_Witness ==
    \E t \in DOMAIN calls :
        /\ KeywordDone(t)
        /\ calls[t].arg = "Uni bus bus"
        /\ calls[t].result["transport"] = <<1, 2>>
        /\ calls[t].result["education"] = <<1, 2>>

\* C9: when the phrases found all belong to one category, that category's
\* weight is 1.0 and the other four are 0.0; "lots of parks and beaches"
\* matches recreation only and yields recreation = 1.0.
C9_SingleCategory ==
    \A t \in DOMAIN calls :
        KeywordDone(t) =>
            LET text == SearchedText(calls[t].arg)
            IN  /\ \A k \in Categories :
                    (FoundCount(k, text) > 0 /\ FoundTotal(text) = FoundCount(k, text)) =>
                        \A c \in Categories :
                            calls[t].result[c] = IF c = k THEN <<1, 1>> ELSE <<0, 1>>
                /\ calls[t].arg = "lots of parks and beaches" =>
                    /\ FoundTotal(text) = FoundCount("recreation", text)
                    /\ calls[t].result["recreation"] = <<1, 1>>

C9_Witness ==
    \E t \in DOMAIN calls :
        /\ KeywordDone(t)
        /\ calls[t].arg = "lots of parks and beaches"
        /\ FoundCount("recreation", calls[t].arg) = 4
        /\ calls[t].result["recreation"] = <<1, 1>>
        /\ calls[t].result["community"] = <<0, 1>>

\* C10: keyword mode returns exactly DEFAULT when no trigger phrase of any
\* category occurs in the (lower-cased) text.
C10_NoMatchDefault ==
    \A t \in DOMAIN calls :
        (KeywordDone(t) /\ FoundTotal(SearchedText(calls[t].arg)) = 0) =>
            calls[t].result = DefaultVector

C10_Witness ==
    \E t \in DOMAIN calls :
        /\ KeywordDone(t)
        /\ calls[t].arg = "x"
        /\ calls[t].result = DefaultVector

-----------------------------------------------------------------------------
(* Determinism and single initialisation of the embedding cache.            *)

C12_SingleConstruction == loads.model <= 1 /\ loads.catalog <= 1

-----------------------------------------------------------------------------
(* The scoring engine.                                                      *)

\* A finished call of calculate_well_resourced_score.
RunDone == run.pc = "done" /\ run.fn = "calculate"

\* A direct call of the normalisation has computed the z-scores.
Normalised == run.fn = "scoring" /\ run.pc \in {"final_scores", "done"} /\ run.outcome # "raised"

\* A direct call of the normalisation and of the sigmoid has returned.
Scored == run.fn = "scoring" /\ run.pc = "done" /\ run.outcome = "returned"

\* Raw value of region i of the batch in a component.
RawAt(i, c) == run.all_scores[i].raw_scores[c]

\* Every region of the batch has the same raw value in component c.
Identical(c) == \A i, j \in 1..Len(run.all_scores) : RawAt(i, c) = RawAt(j, c)

\* The codes of the regions of the current batch.
BatchCodes == {run.sa2_regions[i][1] : i \in 1..Len(run.sa2_regions)}

\* C13: scoring a batch of zero regions is rejected with EmptyBatch before
\* the normalisation is entered, and the score table is left as it was.
C13_EmptyBatchRejected ==
    (RunDone /\ run.raised_at # "get_regions" /\ run.sa2_regions = <<>>) =>
        /\ run.outcome = "raised"
        /\ run.error = "EmptyBatch"
        /\ run.raised_at # "z_scores"
        /\ sa2_scores = run.before

\* The sum of the z-scores of a score without component c.
TotalWithout(z_scores, c) ==
    SelectSeq([i \in 1..Len(ComponentOrder) |->
                  IF ComponentOrder[i] = c THEN ZeroZ ELSE z_scores[ComponentOrder[i]]],
              NonZero)

\* C14: in a non-empty batch a component whose raw values are identical for
\* all regions gets the z-score 0 for every region, nothing divides by zero,
\* and the sum and the final score are those of the other three components.
C14_NoSpreadContributesNothing ==
    /\ (run.fn = "scoring" /\ run.error = "ZeroDivisionError") => run.all_scores = <<>>
    /\ \A i \in 1..Len(run.all_scores) : \A k \in 1..Len(ComponentOrder) :
        LET c == ComponentOrder[k]
            score == run.all_scores[i]
        IN  /\ (Normalised /\ Identical(c)) => score.z_scores[c] = ZeroZ
            /\ (Scored /\ Identical(c)) =>
                /\ score.final_score.total = TotalWithout(score.z_scores, c)
                /\ score.final_score.range \in SigmoidRanges(TotalWithout(score.z_scores, c))

\* A scored batch of several regions in which the schools signal is the same
\* everywhere while the business signal differs.
C14_Witness ==
    /\ Scored
    /\ Len(run.all_scores) >= 2
    /\ Identical("schools")
    /\ ~Identical("business")
    /\ run.all_scores[1].final_score.total # <<>>

\* The final score is exactly 0.5: the sigmoid of a sum without terms.
IsHalf(f) == f.range = "inside" /\ f.total = <<>>

\* C15: for a batch of exactly one region all four z-scores are 0 and the
\* final score is exactly 0.5.
C15_SingleRegionHalf ==
    Len(run.all_scores) = 1 =>
        /\ Normalised =>
            \A k \in 1..Len(ComponentOrder) :
                run.all_scores[1].z_scores[ComponentOrder[k]] = ZeroZ
        /\ Scored => IsHalf(run.all_scores[1].final_score)

\* A scored batch of one region.
C15_Witness == Scored /\ Len(run.all_scores) = 1 /\ RawAt(1, "business") = 20

\* Sums over the batch: N, the sum and the sum of squares of a component.
RECURSIVE SumRawRange(_, _, _)
SumRawRange(lo, hi, c) ==
    IF lo > hi THEN 0
    ELSE IF lo = hi THEN RawAt(lo, c)
    ELSE LET mid == (lo + hi) \div 2
         IN  SumRawRange(lo, mid, c) + SumRawRange(mid + 1, hi, c)

SumRaw(i, c) == SumRawRange(1, i, c)

RECURSIVE SumRawSquaresRange(_, _, _)
SumRawSquaresRange(lo, hi, c) ==
    IF lo > hi THEN 0
    ELSE IF lo = hi THEN RawAt(lo, c) * RawAt(lo, c)
    ELSE LET mid == (lo + hi) \div 2
         IN  SumRawSquaresRange(lo, mid, c) + SumRawSquaresRange(mid + 1, hi, c)

SumRawSquares(i, c) == SumRawSquaresRange(1, i, c)

\* N * x - S has the sign of x - mean, and N * Q - S * S is N * N times the
\* population variance.
Deviation(i, c) == Len(run.all_scores) * RawAt(i, c) - SumRaw(Len(run.all_scores), c)

Spread(c) ==
    Len(run.all_scores) * SumRawSquares(Len(run.all_scores), c)
        - SumRaw(Len(run.all_scores), c) * SumRaw(Len(run.all_scores), c)

\* The business values of the batch are 10, 20, 30 in this order.
TenTwentyThirty ==
    /\ Len(run.all_scores) = 3
    /\ RawAt(1, "business") = 10 /\ RawAt(2, "business") = 20 /\ RawAt(3, "business") = 30

\* C16: every z-score is (raw - mean) / std with the population mean and the
\* population standard deviation: its sign is that of raw - mean and its
\* square is (raw - mean)^2 over the population variance; for the values
\* 10, 20, 30 the squares are 3/2, 0, 3/2 with z < 0 for 10 and z > 0 for 30.
C16_PopulationZScore ==
    Normalised =>
        /\ \A i \in 1..Len(run.all_scores) : \A k \in 1..Len(ComponentOrder) :
            LET c == ComponentOrder[k]
                z == run.all_scores[i].z_scores[c]
            IN  Spread(c) # 0 =>
                    /\ z.sgn = Sign(<<Deviation(i, c), 1>>)
                    /\ z.sq = Rat(Deviation(i, c) * Deviation(i, c), Spread(c))
        /\ TenTwentyThirty =>
            /\ run.all_scores[1].z_scores.business = [sgn |-> -1, sq |-> <<3, 2>>]
            /\ run.all_scores[2].z_scores.business = [sgn |-> 0, sq |-> <<0, 1>>]
            /\ run.all_scores[3].z_scores.business = [sgn |-> 1, sq |-> <<3, 2>>]

\* The normalised batch with the business values 10, 20, 30.
C16_Witness == Normalised /\ TenTwentyThirty

\* C17: every final score of a non-empty batch lies strictly inside (0, 1).
C17_StrictlyInsideUnitInterval ==
    Scored => \A i \in 1..Len(run.all_scores) : run.all_scores[i].final_score.range = "inside"

\* The rows of the committed table with the given region code.
RowsOf(code) == {i \in 1..Len(sa2_scores) : sa2_scores[i].sa2_code = code}

\* C18: after a successful run the score table holds exactly one row for
\* every region of the current batch and no row of any other region.
C18_ExactlyCurrentBatch ==
    (RunDone /\ run.outcome = "returned") =>
        /\ \A code \in BatchCodes : Cardinality(RowsOf(code)) = 1
        /\ \A i \in 1..Len(sa2_scores) : sa2_scores[i].sa2_code \in BatchCodes
        /\ sa2_scores = Rows(run.all_scores)

\* A successful run whose batch leaves out a region the previous run stored.
C18_Witness ==
    /\ RunDone
    /\ run.outcome = "returned"
    /\ \E i \in 1..Len(run.before) : run.before[i].sa2_code \notin BatchCodes

\* C19: a reader that reads while the persistence step runs sees the complete
\* previous rows or the complete new rows, never an emptied or partly
\* inserted table.
C19_ReaderSeesCompleteSet ==
    reader_view.during => reader_view.rows \in {reader_view.before, reader_view.new}

\* A reader read the previous rows after the DELETE and before the commit.
C19_Witness ==
    /\ reader_view.during
    /\ reader_view.at \in {"store_insert", "store_commit"}
    /\ reader_view.before # <<>>
    /\ reader_view.before # reader_view.new
    /\ reader_view.rows = reader_view.before

\* C20: when the persistence step fails at any statement the run raises,
\* returns no summary, and the score table is the one before the run.
C20_FailedStoreLeavesTable ==
    (RunDone /\ run.raised_at \in StoreSteps \cup {"store_connect"}) =>
        /\ run.outcome = "raised"
        /\ run.summary = RunIdle.summary
        /\ sa2_scores = run.before

\* The persistence step failed after the DELETE and an INSERT, the previous
\* run having stored rows.
C20_Witness ==
    /\ RunDone
    /\ run.raised_at = "store_insert"
    /\ run.next > 1
    /\ run.before # <<>>
    /\ sa2_scores = run.before

-----------------------------------------------------------------------------
(* The embedding cache: consistency, reuse and failed loads.                *)

\* No caller stands between the assignment of _embedding_model and the
\* assignment of _example_embeddings.
BetweenAssignments == \E t \in DOMAIN calls : calls[t].pc = "encode_examples"

\* Both module-level values of the cache are set.
Initialized == embedding_model # None /\ example_embeddings # None

\* C22: whenever _embedding_model is set, _example_embeddings is set
\* too, also after the model was loaded and the encoding of the catalog
\* raised, so that `assert _example_embeddings is not None` never fails.
C22_ModelOnlyWithEmbeddings ==
    /\ ~BetweenAssignments => (embedding_model # None => example_embeddings # None)
    /\ \A t \in DOMAIN calls : calls[t].raised # "assert"

\* C23: from the moment both values of the cache are set, no step loads
\* the model, encodes the catalog or assigns either value again.
C23_InitializedCacheReused ==
    [][Initialized => UNCHANGED <<embedding_model, example_embeddings, loads>>]_vars

\* A call of infer_weights_from_nl_query with a non-empty query has gone
\* past the check `if _embedding_model is None`.
PastCheck(t) ==
    /\ calls[t].fn = "infer"
    /\ calls[t].query # ""
    /\ has_st
    /\ calls[t].pc \notin {"idle", "get_state"}

\* The call is about to construct the model or has tried to.
AttemptsLoad(t) == calls[t].pc = "load_model" \/ "load_model" \in calls[t].invoked

\* C29: when the construction of the model raises, both module-level values
\* are still None and the call returns the keyword result of its query; as
\* long as the model is None, every call with a non-empty query that passes
\* the check attempts the construction again.
C29_FailedLoadIsRetried ==
    \A t \in DOMAIN calls :
        /\ (calls[t].pc = "done" /\ calls[t].raised = "load_model") =>
                /\ embedding_model = None
                /\ example_embeddings = None
                /\ calls[t].outcome = "returned"
                /\ calls[t].result = _infer_weights_keyword(calls[t].query)
        /\ (PastCheck(t) /\ embedding_model = None) => AttemptsLoad(t)

\* A call has failed to load the model and returned, and the next call is
\* about to construct the model again.
C29_Witness ==
    /\ \E h \in history : h.load_failed /\ h.result = _infer_weights_keyword("xyz")
    /\ \E t \in DOMAIN calls : calls[t].pc = "load_model" /\ calls[t].invoked = {}
    /\ embedding_model = None
    /\ example_embeddings = None

-----------------------------------------------------------------------------
(* The module-level objects and the returned vectors.                       *)

\* A call has returned and its caller has not written into the vector yet.
Untouched(t) ==
    calls[t].pc = "done" /\ calls[t].outcome = "returned" /\ calls[t].result # Scribbled

\* C24: DEFAULT_WEIGHTS, EXAMPLE_QUERIES and FALLBACK_KEYWORDS keep the
\* items they were imported with, whatever calls were made and whatever the
\* callers wrote into the vectors they got; every returned vector is an
\* object of its own, and a call made after such a write returns the same
\* items as a call made before it.
C24_CatalogNeverAliased ==
    /\ catalog = ImportedCatalog
    /\ \A t \in DOMAIN calls :
        /\ calls[t].outcome = "returned" => ReturnedObject(calls[t]) \notin ModuleObjects
        /\ Untouched(t) => Delivered(calls[t]) = calls[t].result
        /\ (Untouched(t) /\ ReturnsDefault(calls[t])) => calls[t].result = DEFAULT_WEIGHTS

\* The caller of an earlier call with an empty query has overwritten the
\* DEFAULT vector it got, and a later call with an empty query has returned.
C24_Witness ==
    /\ \E h \in history : h.arg = "" /\ h.result = Scribbled
    /\ \E t \in DOMAIN calls :
        /\ Untouched(t)
        /\ calls[t].arg = ""
        /\ calls[t].result = DEFAULT_WEIGHTS
    /\ catalog = ImportedCatalog

-----------------------------------------------------------------------------
(* The scoring engine: repeated scoring, order of the scores, the stages.   *)

\* The second pass over the same records has come to the given step.
SecondPassAt(pcs) == run.fn = "scoring" /\ run.pass = 2 /\ run.pc \in pcs

\* C21: when _calculate_z_scores and _calculate_final_scores are run a
\* second time on the records the first pass has written into, every region
\* has the z-scores and the final_score the first pass gave it.
C21_SecondPassIdentical ==
    /\ SecondPassAt({"final_scores", "done"}) =>
            /\ Len(run.all_scores) = Len(run.first)
            /\ \A i \in 1..Len(run.first) : run.all_scores[i].z_scores = run.first[i].z_scores
    /\ SecondPassAt({"done"}) =>
            /\ run.outcome = "returned"
            /\ \A i \in 1..Len(run.first) :
                    run.all_scores[i].final_score = run.first[i].final_score

\* The second pass has returned on the large batch, whose outlier region
\* has non-zero z-scores and a saturated sigmoid.
C21_Witness ==
    /\ SecondPassAt({"done"})
    /\ run.outcome = "returned"
    /\ Len(run.first) = LargeRegions
    /\ run.first[1].z_scores.business.sgn = 1
    /\ run.all_scores[1].final_score.range = "one"

\* The sum of the z-scores of region i is higher than that of region j by
\* more than the integer bounds leave open.
HigherSum(i, j) ==
    TotalLow(TotalZ(run.all_scores[i].z_scores)) > TotalHigh(TotalZ(run.all_scores[j].z_scores))

\* The final_score of region i is a strictly larger float than that of j.
HigherFinal(i, j) ==
    LET fi == run.all_scores[i].final_score
        fj == run.all_scores[j].final_score
    IN  \/ fi.range = "one" /\ fj.range = "inside"
        \/ fi.range = "inside" /\ fj.range = "inside" /\ HigherSum(i, j)

\* Regions i and j have the same raw values but in component c, where that
\* of i is larger.
LargerOnlyIn(i, j, c) ==
    /\ RawAt(i, c) > RawAt(j, c)
    /\ \A d \in DOMAIN run.all_scores[i].raw_scores \ {c} : RawAt(i, d) = RawAt(j, d)

\* C25: within a scored batch a region whose sum of z-scores is strictly
\* higher has a strictly higher final_score, and of two regions that differ
\* in one raw value only the one with the larger value has the higher
\* final_score.
C25_HigherSumHigherScore ==
    Scored =>
        \A i, j \in 1..Len(run.all_scores) :
            /\ HigherSum(i, j) => HigherFinal(i, j)
            /\ \A c \in DOMAIN run.all_scores[i].raw_scores :
                    LargerOnlyIn(i, j, c) => HigherFinal(i, j)

\* The stages of calculate_well_resourced_score before the store step.
EarlierStages == {"get_regions", "component_scores", "z_scores", "final_scores"}

\* The run is in the store step or past it.
InOrPastStore == run.fn = "calculate" /\ run.pc \in StoreSteps \cup {"store_connect", "summary"}

\* Every region of the run has its raw scores, z-scores and final score.
AllScoresComplete ==
    /\ Len(run.all_scores) = Len(run.sa2_regions)
    /\ \A i \in 1..Len(run.all_scores) :
        /\ run.all_scores[i].sa2_code = run.sa2_regions[i][1]
        /\ run.all_scores[i].raw_scores = SourceRegions[RawOf(run.sa2_regions[i][1])].raw
        /\ run.all_scores[i].z_scores # <<>>
        /\ run.all_scores[i].final_score.range # "none"

\* C26: the score table is written only by the store step, which begins
\* when every region has its raw, z and final scores; a run that fails in
\* an earlier stage raises and leaves the table as it was; a summary is
\* returned only when the store step has committed the scores of the run.
C26_StoreAfterAllScores ==
    /\ [](InOrPastStore => AllScoresComplete)
    /\ []((RunDone /\ run.raised_at \in EarlierStages) =>
            (run.outcome = "raised" /\ sa2_scores = run.before))
    /\ []((RunDone /\ run.outcome = "returned") =>
            (AllScoresComplete /\ sa2_scores = Rows(run.all_scores)))
    /\ [][sa2_scores' # sa2_scores => (InOrPastStore /\ run.pc \in StoreSteps)]_vars

\* A run over a table an earlier run has filled fails while the signals of
\* the regions are read.
C26_Witness ==
    /\ RunDone
    /\ run.raised_at = "component_scores"
    /\ run.before # <<>>
    /\ sa2_scores = run.before

-----------------------------------------------------------------------------
(* The correlation of the scores with the incomes.                          *)

\* The reader has returned a correlation.
Correlated == reader_view.result.returned

\* The pairs of a stored score and an income row of the same region whose
\* median income is not NULL and above zero.
QualifyingPairs ==
    {p \in (1..Len(reader_view.rows)) \X (1..Len(reader_view.income)) :
        /\ reader_view.rows[p[1]].sa2_code = reader_view.income[p[2]].sa2_code
        /\ ~reader_view.income[p[2]].median_income.null
        /\ reader_view.income[p[2]].median_income.value > 0}

\* C27: the correlation is computed from exactly the pairs of a stored score
\* and an income row of the same region with a median income that is
\* present and above zero; sample_size is their number; without such a pair
\* the correlation is None and sample_size is 0.
C27_CorrelationOverQualifyingPairs ==
    Correlated =>
        LET result == reader_view.result
            df == result.correlation.pearson
        IN  /\ result.sample_size = Cardinality(QualifyingPairs)
            /\ Len(df) = result.sample_size
            /\ result.correlation.none <=> QualifyingPairs = {}
            /\ \A k \in 1..Len(df) : \E p \in QualifyingPairs :
                /\ df[k].total_score = reader_view.rows[p[1]].total_score
                /\ df[k].median_income = reader_view.income[p[2]].median_income.value
            /\ \A p \in QualifyingPairs : \E k \in 1..Len(df) :
                /\ df[k].total_score = reader_view.rows[p[1]].total_score
                /\ df[k].median_income = reader_view.income[p[2]].median_income.value

\* One scored region has a positive income; another has an income of zero,
\* and the income table has a row of a region without a score.
C27_Witness ==
    /\ Correlated
    /\ reader_view.result.sample_size = 1
    /\ \E j \in 1..Len(reader_view.income) :
        /\ ~reader_view.income[j].median_income.null
        /\ reader_view.income[j].median_income.value = 0
        /\ \E i \in 1..Len(reader_view.rows) :
                reader_view.rows[i].sa2_code = reader_view.income[j].sa2_code
    /\ \E j \in 1..Len(reader_view.income) : reader_view.income[j].sa2_code = "10101"

\* No pair qualifies although scores are stored and incomes exist.
C27_WitnessNone ==
    /\ Correlated
    /\ reader_view.rows # <<>>
    /\ reader_view.income # <<>>
    /\ reader_view.result = [returned |-> TRUE, correlation |-> NoCorrelation, sample_size |-> 0]

-----------------------------------------------------------------------------
(* The recommendation endpoint.                                             *)

\* The endpoint has returned a list of recommendations.
Recommended == recommend.pc = "done" /\ recommend.outcome = "returned"

\* The rows of the frame that are behind a returned recommendation.
ReturnedRows ==
    {i \in 1..Len(recommend.df) :
        \E k \in 1..Len(recommend.recommendations) :
            recommend.recommendations[k].suburb_name = recommend.df[i].sa4_name}

\* The largest total of the rows of the given set.
LargestTotal(rows) ==
    CHOOSE m \in {recommend.df[i].total_pois : i \in rows} :
        \A i \in rows : recommend.df[i].total_pois <= m

\* Sum over the five categories of weight * count, times 100.
RECURSIVE WeightedCount(_, _, _)
WeightedCount(preferences, counts, keys) ==
    IF keys = <<>> THEN 0
    ELSE (preferences[Head(keys)][1] * (100 \div preferences[Head(keys)][2])) * counts[Head(keys)]
            + WeightedCount(preferences, counts, Tail(keys))

\* The score of row i is the weighted count over max_total.
ScoredOver(i, score, max_total) ==
    score = Rat(WeightedCount(recommend.preferences, recommend.df[i].counts, CategoryOrder),
                100 * max_total)

\* The returned list: at most TopN rows of the frame, each once, scored
\* over max_total, in non-increasing order of score, no omitted row scoring
\* higher than a returned one.
TopByScoreOver(max_total) ==
    LET recs == recommend.recommendations
    IN  /\ Len(recs) <= TopN
        /\ Len(recs) = Cardinality(ReturnedRows)
        /\ Len(recs) = TopN \/ Len(recs) = Len(recommend.df)
        /\ \A k \in 1..Len(recs) : \E i \in ReturnedRows :
            /\ recs[k].suburb_name = recommend.df[i].sa4_name
            /\ ScoredOver(i, recs[k].score, max_total)
        /\ \A k, l \in 1..Len(recs) : k < l => RLeq(recs[l].score, recs[k].score)
        /\ \A i \in (1..Len(recommend.df)) \ ReturnedRows : \A k \in 1..Len(recs) :
            \E score \in {RowScore(recommend.preferences, recommend.df[i], max_total)} :
                ScoredOver(i, score, max_total) /\ RLeq(score, recs[k].score)

\* C28 as stated: the scores are the weighted counts over the largest total
\* POI count of the returned regions.
C28_ScoredOverLargestReturned ==
    Recommended => TopByScoreOver(LargestTotal(ReturnedRows))

\* C28: every region is scored as the sum over the five categories of
\* weight * count / max_total, max_total being the largest total POI count
\* of the regions the query found, returned or omitted; at most 10 regions
\* are returned, in non-increasing order of score, and no omitted region
\* scores higher than a returned one.
C28_ScoredOverLargestFound ==
    Recommended => TopByScoreOver(LargestTotal(1..Len(recommend.df)))

\* Of more than ten regions the one with the most POIs is omitted.
C28_Witness ==
    /\ Recommended
    /\ Len(recommend.df) > TopN
    /\ Len(recommend.recommendations) = TopN
    /\ \E i \in (1..Len(recommend.df)) \ ReturnedRows :
            recommend.df[i].total_pois = LargestTotal(1..Len(recommend.df))

-----------------------------------------------------------------------------
(* The data collector.                                                      *)

\* A call of _make_request with retries >= 1 is running or has returned.
Requesting == request.pc # "idle" /\ request.retries >= 1

\* The counts of a call: never more HTTP attempts than `retries`; a delay
\* after every failed attempt but the last; a parsed body is returned by the
\* first attempt that does not fail, and None after `retries` failures.
RequestCounts ==
    Requesting =>
        /\ request.gets <= request.retries
        /\ request.sleeps <= request.retries - 1
        /\ request.pc = "attempt" =>
                /\ request.gets = Len(request.failures)
                /\ request.sleeps = Len(request.failures)
        /\ request.pc = "sleep" =>
                /\ request.gets = Len(request.failures)
                /\ request.sleeps = Len(request.failures) - 1
                /\ Len(request.failures) < request.retries
        /\ (request.pc = "done" /\ request.result # None) =>
                /\ request.returned
                /\ request.result \in Bodies
                /\ request.gets = Len(request.failures) + 1
                /\ request.sleeps = Len(request.failures)
        /\ (request.pc = "done" /\ request.result = None) =>
                /\ request.returned
                /\ request.gets = request.retries
                /\ Len(request.failures) = request.retries
                /\ request.sleeps = request.retries - 1

\* C30: a call of _make_request with retries = n >= 1 makes at most n HTTP
\* attempts, returns the parsed response of the first attempt that succeeds
\* and makes no attempt after it, waits after every failed attempt but the
\* last, returns None after n failed attempts, and always returns.
C30_BoundedRetriesTerminate ==
    /\ []RequestCounts
    /\ [][request.pc = "done" => (request' = request \/ request' = RequestIdle)]_vars
    /\ (request.pc \in {"attempt", "sleep"}) ~> (request.pc = "done")

\* Every attempt of a call with the largest number of retries has failed.
C30_Witness ==
    /\ request.pc = "done"
    /\ request.retries = MaxRetries
    /\ request.result = None
    /\ request.gets = MaxRetries
    /\ request.sleeps = MaxRetries - 1

=============================================================================
